---- MODULE Spec2Model ----
(***************************************************************************)
(* Session action compiler, session envelope builders and request dispatch *)
(* wrappers of MycroftSkill                                                *)
(* (shared/mycroft/skills/mycroft_skill/mycroft_skill.py).                 *)
(***************************************************************************)
EXTENDS Integers, Sequences, FiniteSets, TLC

(***************************************************************************)
(* Bounds of the model.                                                    *)
(***************************************************************************)
\* longest dialog / gui sequence passed to the action compiler
MaxLen == 2
\* number of uuid4() session ids that may be allocated in one behaviour
MaxUuid == 2
\* number of envelopes a handler builds before it returns
MaxBuilt == 2

(***************************************************************************)
(* Values.                                                                 *)
(***************************************************************************)
\* Python's None
None == "None"
\* a key that a dict does not hold
Absent == "<absent>"

\* class GuiClear
GuiClear == {"auto", "on_idle", "never", "at_start", "at_end"}
\* class MessageSend
MessageSend == {"at_start", "at_end"}

\* self.skill_id, and the id of some other skill on the bus
skill_id == "my-skill"
other_skill_id == "other-skill"

DialogNames == {"d1", "d2"}
PageNames == {"g1", "g2"}

\* sequences over S of length 0..n
SeqUpTo(S, n) == UNION {[1..k -> S] : k \in 0..n}

(***************************************************************************)
(* An Optional[Union[item, Sequence[item]]] argument (dialog, gui): None,  *)
(* one item, or a sequence of items.                                       *)
(***************************************************************************)
NoItems == [kind |-> "none", items |-> <<>>]
OneItem(x) == [kind |-> "single", items |-> <<x>>]
ItemList(s) == [kind |-> "list", items |-> s]
ItemArgs(S) == {NoItems} \cup {OneItem(x) : x \in S}
                 \cup {ItemList(s) : s \in SeqUpTo(S, MaxLen)}

\* guis = [] / [gui] / list(gui), and the same for dialogs
as_list(arg) ==
    IF arg.kind = "none" THEN <<>>
    ELSE IF arg.kind = "single" THEN <<arg.items[1]>>
    ELSE arg.items

(***************************************************************************)
(* A mycroft Message attached to a session (msg_type and the               *)
(* mycroft_session_id entry of its data, Absent when data has none).       *)
(***************************************************************************)
AttachedMessages == {[msg_type |-> "skill.event", data_sid |-> d] : d \in {Absent, "m1"}}
NoMessage == [msg_type |-> None, data_sid |-> Absent]

(***************************************************************************)
(* Keyword arguments of _build_actions.                                    *)
(***************************************************************************)
BuildInputs ==
    [dialog : ItemArgs(DialogNames),
     speak : {None, "Hello"},
     speak_wait : {TRUE},
     gui : ItemArgs(PageNames),
     gui_clear : GuiClear,
     audio_alert : {None, "", "alert.wav"},
     music_uri : {None, "radio.mp3"},
     message : {NoMessage} \cup AttachedMessages,
     message_send : MessageSend,
     expect_response : BOOLEAN]

\* the defaults of the keyword arguments
DefaultInput ==
    [dialog |-> NoItems, speak |-> None, speak_wait |-> TRUE, gui |-> NoItems,
     gui_clear |-> "auto", audio_alert |-> None, music_uri |-> None,
     message |-> NoMessage, message_send |-> "at_start",
     expect_response |-> FALSE]

(***************************************************************************)
(* Actions: dicts with a "type"; the keys a dict lacks are Absent.         *)
(***************************************************************************)
Action(type) ==
    [type |-> type, utterance |-> Absent, dialog |-> Absent, wait |-> Absent,
     page |-> Absent, namespace |-> Absent, uri |-> Absent,
     message_type |-> Absent, delay |-> Absent, data_sid |-> Absent]

\* the worker threads of the bus client that run this skill's callbacks
Workers == {"w1", "w2"}

VARIABLES
    _mycroft_session_id,  \* self._mycroft_session_id
    dialog_renderer,      \* self.dialog_renderer: None or "loaded"
    data_loaded,          \* the skill loader has called load_data_files
    root_dir,             \* files under self.root_dir: [dialogs, ui]
    sounds_acknowledge,   \* config "sounds"/"acknowledge": None, or a sound
                          \* name whose file is "found" or "missing"
    uuid_count,           \* session ids uuid4() has handed out
    pc,                   \* where each worker stands in its callback
    inbound,              \* the bus message each worker handles
    invoked,              \* whether the worker invoked the handler
    n_calls,              \* session builder calls made by the handler
    held,                 \* the envelope the handler holds to return
    outcome,              \* how the handler ended, after how many calls of
                          \* the session builders, and whether the last
                          \* of these calls raised
    result_message,       \* result_message of the wrapper
    emitted,              \* what the worker passed to self.bus.emit, in order
    started,              \* the calls of emit_start_session that returned to
                          \* the worker: the id given and the id returned
    call,                 \* the arguments of a call of _build_actions
    ret,                  \* what the call returned
    session_ended,        \* the envelope last emitted by a wrapper was the
                          \* end-session envelope of the skill's session id
    settings,             \* self.settings
    _initial_settings,    \* self._initial_settings
    stored,               \* the settings file under settings_write_path
    settings_point,       \* what happened to the settings last: "clean"
                          \* (loaded, or saved by on_end), "mutated" by a
                          \* handler, "remote" (changed remotely and saved),
                          \* "failed" (on_end could not save them)
    skill_data,           \* the "exception" entry of the skill_data of each
                          \* add_event registration
    last_end,             \* what on_end did for the message of each worker
    skill_control,        \* self.skill_control: state, states, category
    detached_intents,     \* the intents detached in self.intent_service
    last_change,          \* the last call of change_state: what was asked,
                          \* the state and the detached intents before and
                          \* after it, and what it did, in order
    use_settings,         \* the use_settings argument of __init__
    down                  \* what default_shutdown did, in order

skill_vars == <<_mycroft_session_id, dialog_renderer, data_loaded>>
env_vars == <<root_dir, sounds_acknowledge>>
worker_vars ==
    <<pc, inbound, invoked, n_calls, held, outcome, result_message, emitted,
      started, last_end>>
call_vars == <<call, ret>>
settings_vars ==
    <<settings, _initial_settings, stored, settings_point, skill_data>>
life_vars == <<session_ended, settings_vars>>
control_vars == <<skill_control, detached_intents, last_change>>
shutdown_vars == <<use_settings, down>>
vars ==
    <<skill_vars, env_vars, shutdown_vars, control_vars, life_vars,
      uuid_count, worker_vars, call_vars>>

\* find_resource(gui_page, "ui"): a path, or None
find_resource(page) == IF page \in root_dir.ui THEN <<"ui", page>> ELSE None

\* dialog_renderer.render(dialog_name, dialog_data)
render(dialog_name) == <<"rendered", dialog_name>>

MessageAction(message, with_delay) ==
    [Action("message") EXCEPT
        !.message_type = message.msg_type,
        !.delay = IF with_delay THEN "message_delay" ELSE Absent,
        \* {"mycroft_session_id": self._mycroft_session_id, **message.data}
        !.data_sid = IF message.data_sid = Absent
                     THEN _mycroft_session_id ELSE message.data_sid]

ShowPage(gui_page) ==
    [Action("show_page") EXCEPT
        !.page = <<"file://", find_resource(gui_page)>>,
        !.namespace = <<skill_id, gui_page>>]

SpeakDialog(dialog_name, speak_wait) ==
    [Action("speak") EXCEPT
        !.utterance = render(dialog_name),
        !.dialog = dialog_name,
        !.wait = speak_wait]

SpeakText(speak, speak_wait) ==
    [Action("speak") EXCEPT !.utterance = speak, !.wait = speak_wait]

\* mutant: zip instead of zip_longest, the longer sequence is cut
RECURSIVE Interleave_Truncates(_, _, _, _)
Interleave_Truncates(dialogs, guis, speak_wait, i) ==
    IF i > Len(dialogs) \/ i > Len(guis) THEN <<>>
    ELSE <<ShowPage(guis[i]), SpeakDialog(dialogs[i], speak_wait)>>
         \o Interleave_Truncates(dialogs, guis, speak_wait, i + 1)

\* for maybe_dialog, maybe_gui in itertools.zip_longest(dialogs, guis), from
\* position i on
RECURSIVE Interleave(_, _, _, _)
Interleave(dialogs, guis, speak_wait, i) ==
    IF i > Len(dialogs) /\ i > Len(guis) THEN <<>>
    ELSE (IF i <= Len(guis) THEN <<ShowPage(guis[i])>> ELSE <<>>)
         \o (IF i <= Len(dialogs) THEN <<SpeakDialog(dialogs[i], speak_wait)>> ELSE <<>>)
         \o Interleave(dialogs, guis, speak_wait, i + 1)

\* mutant: a page that is not found is shown as "file://None"
BuildRaises_PagesLenient(in) ==
    as_list(in.dialog) # <<>> /\ dialog_renderer = None

\* "file://" + None and None.render(...) raise
BuildRaises(in) ==
    \/ \E i \in 1..Len(as_list(in.gui)) : find_resource(as_list(in.gui)[i]) = None
    \/ as_list(in.dialog) # <<>> /\ dialog_renderer = None

\* mutant: the policy is not degraded when a response is expected
ClearAfterExpect_NoDegrade(in) == in.gui_clear

\* gui_clear after "if expect_response and (gui_clear == GuiClear.AUTO)"
ClearAfterExpect(in) ==
    IF in.expect_response /\ in.gui_clear = "auto" THEN "never" ELSE in.gui_clear

\* mutant: "at_start" is resolved at the end like "auto"
ResolveAuto_AlsoAtStart(gui_clear, guis, dialogs, speak) ==
    IF gui_clear \in {"auto", "at_start"}
    THEN IF guis # <<>>
         THEN IF dialogs # <<>> \/ speak # None THEN "at_end" ELSE "on_idle"
         ELSE "never"
    ELSE gui_clear

\* mutant: only the dialogs count as speech
ResolveAuto_DialogsOnly(gui_clear, guis, dialogs, speak) ==
    IF gui_clear = "auto"
    THEN IF guis # <<>>
         THEN IF dialogs # <<>> THEN "at_end" ELSE "on_idle"
         ELSE "never"
    ELSE gui_clear

\* gui_clear after "if gui_clear == GuiClear.AUTO:" at the end
ResolveAuto(gui_clear, guis, dialogs, speak) ==
    IF gui_clear = "auto"
    THEN IF guis # <<>>
         THEN IF dialogs # <<>> \/ speak # None THEN "at_end" ELSE "on_idle"
         ELSE "never"
    ELSE gui_clear

\* steps 1-3: message (at_start), clear (at_start), audio alert
BeforeSpeech(in) ==
    (IF in.message # NoMessage /\ in.message_send = "at_start"
     THEN <<MessageAction(in.message, FALSE)>> ELSE <<>>)
    \o (IF ClearAfterExpect(in) = "at_start" THEN <<Action("clear_display")>> ELSE <<>>)
    \o (IF in.audio_alert \notin {None, ""}
        THEN <<[Action("audio_alert") EXCEPT !.uri = in.audio_alert, !.wait = TRUE]>>
        ELSE <<>>)

\* the "if speak is not None" block
LiteralSpeech(in) ==
    IF in.speak # None THEN <<SpeakText(in.speak, in.speak_wait)>> ELSE <<>>

\* the trailing clear_display / wait_for_idle for a resolved policy
TrailingClear(resolved) ==
    IF resolved = "at_end" THEN <<Action("clear_display")>>
    ELSE IF resolved = "on_idle" THEN <<Action("wait_for_idle")>>
    ELSE <<>>

\* mutant: get_response is appended after the trailing clear / idle action
AfterSpeech_ResponseLast(in) ==
    (IF in.message # NoMessage /\ in.message_send = "at_end"
     THEN <<MessageAction(in.message, TRUE)>> ELSE <<>>)
    \o (IF in.music_uri \notin {None, ""}
        THEN <<[Action("stream_music") EXCEPT !.uri = in.music_uri]>> ELSE <<>>)
    \o TrailingClear(ResolveAuto(ClearAfterExpect(in), as_list(in.gui),
                                 as_list(in.dialog), in.speak))
    \o (IF in.expect_response THEN <<Action("get_response")>> ELSE <<>>)

\* mutant: the message (at_end) is appended after stream_music and
\* get_response, right before the trailing clear / idle action
AfterSpeech_MessageLast(in) ==
    (IF in.music_uri \notin {None, ""}
     THEN <<[Action("stream_music") EXCEPT !.uri = in.music_uri]>> ELSE <<>>)
    \o (IF in.expect_response THEN <<Action("get_response")>> ELSE <<>>)
    \o (IF in.message # NoMessage /\ in.message_send = "at_end"
        THEN <<MessageAction(in.message, TRUE)>> ELSE <<>>)
    \o TrailingClear(ResolveAuto(ClearAfterExpect(in), as_list(in.gui),
                                 as_list(in.dialog), in.speak))

\* message (at_end), stream_music, get_response, trailing clear / idle
AfterSpeech(in) ==
    (IF in.message # NoMessage /\ in.message_send = "at_end"
     THEN <<MessageAction(in.message, TRUE)>> ELSE <<>>)
    \o (IF in.music_uri \notin {None, ""}
        THEN <<[Action("stream_music") EXCEPT !.uri = in.music_uri]>> ELSE <<>>)
    \o (IF in.expect_response THEN <<Action("get_response")>> ELSE <<>>)
    \o TrailingClear(ResolveAuto(ClearAfterExpect(in), as_list(in.gui),
                                 as_list(in.dialog), in.speak))

\* the list _build_actions returns when it does not raise
BuildList(in) ==
    BeforeSpeech(in)
    \o Interleave(as_list(in.dialog), as_list(in.gui), in.speak_wait, 1)
    \o LiteralSpeech(in)
    \o AfterSpeech(in)

\* MycroftSkill._build_actions: the action list, or the exception
_build_actions(in) ==
    IF BuildRaises(in)
    THEN [raised |-> TRUE, actions |-> <<>>]
    ELSE [raised |-> FALSE, actions |-> BuildList(in)]

(***************************************************************************)
(* Bus messages the skill sends: session envelopes and play-sound.         *)
(***************************************************************************)
Envelope(type, mycroft_session_id, actions) ==
    [type |-> type, mycroft_session_id |-> mycroft_session_id,
     skill_id |-> skill_id, actions |-> actions, continue_session |-> Absent,
     state |-> Absent, aborted |-> Absent, uri |-> Absent]

\* "result_message: Optional[Message] = None"
NoneMessage == Envelope(None, None, <<>>)

\* str(uuid4()): an id no message carried and no call returned before
uuid4 == "uuid-" \o ToString(uuid_count + 1)

\* mutant: the id returned is the session id of the skill
emit_start_session_ReturnsActive(in, mycroft_session_id, continue_arg) ==
    LET sid == IF mycroft_session_id = None THEN uuid4 ELSE mycroft_session_id
        built == _build_actions(in)
    IN  [raised |-> built.raised,
         mycroft_session_id |-> _mycroft_session_id,
         message |-> [Envelope("mycroft.session.start", sid, built.actions)
                        EXCEPT !.continue_session =
                            IF continue_arg = Absent THEN "False" ELSE continue_arg]]

\* MycroftSkill.emit_start_session: the id it returns and the message it
\* emits, or the exception of _build_actions; continue_arg is Absent when
\* the caller leaves continue_session to its default
emit_start_session(in, mycroft_session_id, continue_arg) ==
    LET sid == IF mycroft_session_id = None THEN uuid4 ELSE mycroft_session_id
        built == _build_actions(in)
    IN  [raised |-> built.raised,
         mycroft_session_id |-> sid,
         message |-> [Envelope("mycroft.session.start", sid, built.actions)
                        EXCEPT !.continue_session =
                            IF continue_arg = Absent THEN "False" ELSE continue_arg]]

\* MycroftSkill.continue_session
continue_session(in, mycroft_session_id, state) ==
    LET sid == IF mycroft_session_id = None
               THEN _mycroft_session_id ELSE mycroft_session_id
        built == _build_actions(in)
    IN  [raised |-> built.raised,
         message |-> [Envelope("mycroft.session.continue", sid, built.actions)
                        EXCEPT !.state = state]]

\* mutant: the session id is not defaulted to the skill's session id
end_session_NoDefault(in, mycroft_session_id) ==
    LET built == _build_actions([in EXCEPT !.expect_response = FALSE])
    IN  [raised |-> built.raised,
         message |-> Envelope("mycroft.session.end", mycroft_session_id, built.actions)]

\* mutant: end_session passes expect_response on to _build_actions
end_session_ExpectsResponse(in, mycroft_session_id) ==
    LET sid == IF mycroft_session_id = None
               THEN _mycroft_session_id ELSE mycroft_session_id
        built == _build_actions(in)
    IN  [raised |-> built.raised,
         message |-> Envelope("mycroft.session.end", sid, built.actions)]

\* MycroftSkill.end_session (it has no expect_response argument)
end_session(in, mycroft_session_id) ==
    LET sid == IF mycroft_session_id = None
               THEN _mycroft_session_id ELSE mycroft_session_id
        built == _build_actions([in EXCEPT !.expect_response = FALSE])
    IN  [raised |-> built.raised,
         message |-> Envelope("mycroft.session.end", sid, built.actions)]

\* MycroftSkill.stop, the default stop handler
stop == end_session([DefaultInput EXCEPT !.gui_clear = "at_end"], None)

\* mutant: the envelope is not flagged
abort_session_NoFlag == end_session(DefaultInput, None)

\* MycroftSkill.abort_session
abort_session ==
    LET ended == end_session(DefaultInput, None)
    IN  [ended EXCEPT !.message.aborted = "True"]

\* mutant: the play-sound message carries no session id
play_sound_uri_NoSession(uri) ==
    [Envelope("mycroft.audio.play-sound", None, <<>>)
        EXCEPT !.skill_id = Absent, !.uri = uri]

\* MycroftSkill.play_sound_uri
play_sound_uri(uri) ==
    [Envelope("mycroft.audio.play-sound", _mycroft_session_id, <<>>)
        EXCEPT !.skill_id = Absent, !.uri = uri]

\* what MycroftSkill.acknowledge emits
acknowledge ==
    IF sounds_acknowledge = None THEN <<>>
    ELSE IF sounds_acknowledge = "missing" THEN <<>>
    ELSE <<play_sound_uri("file://acknowledge")>>

(***************************************************************************)
(* Bus messages the skill receives.                                        *)
(***************************************************************************)
SessionIds == {None, "s1", "s2"}

Inbound ==
    [kind : {"intent", "mycroft.skill.stop", "mycroft.skill-response"},
     skill_id : {skill_id, other_skill_id},
     mycroft_session_id : SessionIds]

NoInbound == [kind |-> None, skill_id |-> None, mycroft_session_id |-> None]

(***************************************************************************)
(* The settings of the skill, and the handlers registered with add_event.  *)
(***************************************************************************)
SettingKeys == {"k1", "k2"}
SettingValues == [SettingKeys -> 0..1]
DefaultSettings == [k \in SettingKeys |-> 0]

\* the data of a mycroft.skills.settings.changed message: it has no entry
\* for this skill, or the entry holds new values for some of the keys
RemoteSettings == UNION {[K -> 0..1] : K \in SUBSET SettingKeys}
SettingsChanged ==
    {[for_skill |-> FALSE, remote_settings |-> <<>>]} \cup
    {[for_skill |-> TRUE, remote_settings |-> r] : r \in RemoteSettings}

\* dict.update: the entries of remote replace those of the settings
update(old, remote) ==
    [k \in SettingKeys |-> IF k \in DOMAIN remote THEN remote[k] ELSE old[k]]

\* the names registered with add_event, and the handler_info of each
Registered == {"mycroft.skill.stop", "skill.event", "skill.handler.event"}
handler_info(name) ==
    IF name = "skill.handler.event" THEN "mycroft.skill.handler" ELSE None

\* on_end has not run for the message
NoEnd ==
    [ran |-> FALSE, dirty |-> FALSE, save |-> "none", point |-> "clean",
     written |-> TRUE, synced |-> TRUE, complete |-> FALSE]

\* _init_settings (called by __init__, use_settings being True): the
\* settings are read from the file, and the snapshot is a copy of them
_init_settings(files) ==
    /\ use_settings = TRUE
    /\ stored \in files
    /\ settings = stored
    /\ _initial_settings = settings
    /\ settings_point = "clean"
    /\ skill_data = [name \in Registered |-> Absent]

(***************************************************************************)
(* The states of the skill: self.skill_control, and the intents the skill  *)
(* registered with self.intent_service.                                    *)
(***************************************************************************)
\* the names of the registered intents; "i4" was never registered
RegisteredIntents == {"i1", "i2", "i3"}
IntentNames == RegisteredIntents \cup {"i4"}

\* skill_control.states is None
NoStates == [given |-> FALSE, intents |-> <<>>]

\* skill_control.states set by the skill: the intents of each state
SkillStates ==
    [given |-> TRUE,
     intents |-> [inactive |-> <<>>,
                  active |-> <<"i1", "i2">>,
                  paused |-> <<"i2", "i3", "i4">>]]

\* the keys of skill_control.states
StateNames(states) == IF states.given THEN DOMAIN states.intents ELSE {}

\* the states change_state is asked for; "bogus" is no state of the skill
RequestedStates == {"inactive", "active", "paused", "bogus"}

\* change_state has not been called
NoChange ==
    [new_state |-> None, from |-> None, to |-> None, before |-> {},
     after |-> {}, did |-> <<>>]

\* SkillControl(), then the skill's own assignments: the skill has one of
\* the given categories and starts in one of the states it gives, in
\* "inactive" when it gives none; all registered intents are attached
InitControl(given, categories) ==
    /\ \E states \in given : \E category \in categories :
       \E state \in (IF states.given THEN StateNames(states) ELSE {"inactive"}) :
          skill_control =
              [state |-> state, states |-> states, category |-> category]
    /\ detached_intents = {}
    /\ last_change = NoChange

(***************************************************************************)
(* The action compiler as a function of its arguments.                     *)
(***************************************************************************)
\* default_shutdown was not called
NotDown ==
    [ran |-> FALSE, log |-> <<>>, how |-> "not called", dirty |-> FALSE,
     exists |-> TRUE, written |-> FALSE, cleared |-> FALSE, emitted |-> <<>>,
     stopped |-> NoneMessage]

NotCalled == [done |-> FALSE, raised |-> FALSE, actions |-> <<>>]

\* what the skill's root directory holds: a dialog directory or none, and
\* the ui pages
RootDirs ==
    {[dialogs |-> TRUE, ui |-> PageNames],
     [dialogs |-> FALSE, ui |-> PageNames],
     [dialogs |-> TRUE, ui |-> {"g1"}]}

\* the handler has not ended
Pending == [how |-> "pending", calls |-> 0, builder |-> FALSE]

\* MycroftSkill.__init__, for the workers: nothing is being handled
InitWorkers ==
    /\ pc = [w \in Workers |-> "idle"]
    /\ inbound = [w \in Workers |-> NoInbound]
    /\ invoked = [w \in Workers |-> FALSE]
    /\ n_calls = [w \in Workers |-> 0]
    /\ held = [w \in Workers |-> NoneMessage]
    /\ outcome = [w \in Workers |-> Pending]
    /\ result_message = [w \in Workers |-> NoneMessage]
    /\ emitted = [w \in Workers |-> <<>>]
    /\ started = [w \in Workers |-> <<>>]
    /\ last_end = [w \in Workers |-> NoEnd]
    /\ session_ended = FALSE
    /\ down = NotDown

\* a skill with its data files loaded, about to compile `call`; the session
\* id and the send policy matter to a call with a message only
InitCompile ==
    /\ call \in BuildInputs
    /\ call.message = NoMessage => call.message_send = "at_start"
    /\ _mycroft_session_id \in
          (IF call.message = NoMessage THEN {None} ELSE {None, "s1"})
    /\ root_dir \in RootDirs
    /\ dialog_renderer = (IF root_dir.dialogs THEN "loaded" ELSE None)
    /\ data_loaded = TRUE
    /\ sounds_acknowledge = None
    /\ uuid_count = 0
    /\ _init_settings({DefaultSettings})
    /\ InitControl({NoStates}, {"undefined"})
    /\ InitWorkers
    /\ ret = NotCalled

CallBuildActions ==
    /\ ~ret.done
    /\ ret' = [done |-> TRUE, raised |-> _build_actions(call).raised,
               actions |-> _build_actions(call).actions]
    /\ UNCHANGED <<skill_vars, env_vars, shutdown_vars, control_vars,
                   life_vars, uuid_count, worker_vars, call>>

NextCompile == CallBuildActions

SpecCompile == InitCompile /\ [][NextCompile]_vars

(***************************************************************************)
(* The dispatch wrappers.  A worker runs one bus callback at a time:       *)
(* _handle_intent, __handle_skill_stop or __handle_skill_response.  The    *)
(* handler it invokes (the intent handler, stop, raw_utterance) is skill   *)
(* code: it calls the session builders, then returns an envelope, returns  *)
(* None, or raises.                                                        *)
(***************************************************************************)
\* arguments the handlers pass to the session builders
HandlerInputs ==
    {[DefaultInput EXCEPT !.speak = "Hello", !.expect_response = TRUE],
     [DefaultInput EXCEPT !.dialog = OneItem("d1"), !.gui = OneItem("g2")],
     [DefaultInput EXCEPT !.gui_clear = "at_end"]}

\* the mycroft_session_id argument the handlers pass: None or an id
ExplicitIds == {None, "s9"}

\* MycroftSkill.__init__, and the files and configuration around the skill
Init ==
    /\ _mycroft_session_id = None
    /\ dialog_renderer = None
    /\ data_loaded = FALSE
    /\ root_dir \in RootDirs
    /\ sounds_acknowledge \in {None, "missing", "found"}
    /\ uuid_count = 0
    /\ _init_settings({DefaultSettings})
    /\ InitControl({NoStates}, {"undefined"})
    /\ InitWorkers
    /\ call = DefaultInput
    /\ ret = NotCalled

\* load_data_files / init_dialog, called by the skill loader before the
\* skill's intents are registered
load_data_files ==
    /\ ~data_loaded
    /\ data_loaded' = TRUE
    /\ dialog_renderer' = (IF root_dir.dialogs THEN "loaded" ELSE dialog_renderer)
    /\ UNCHANGED <<_mycroft_session_id, env_vars, shutdown_vars, control_vars,
                   life_vars, uuid_count, worker_vars, call_vars>>

\* worker w runs no callback
Free(w) == pc[w] \in {"idle", "done", "escaped"}

\* worker w enters a callback for bus message m, at position at
Enter(w, m, at) ==
    /\ Free(w)
    /\ pc' = [pc EXCEPT ![w] = at]
    /\ inbound' = [inbound EXCEPT ![w] = m]
    /\ invoked' = [invoked EXCEPT ![w] = (at = "handler")]
    /\ n_calls' = [n_calls EXCEPT ![w] = 0]
    /\ held' = [held EXCEPT ![w] = NoneMessage]
    /\ outcome' = [outcome EXCEPT ![w] = Pending]
    /\ result_message' = [result_message EXCEPT ![w] = NoneMessage]
    /\ emitted' = [emitted EXCEPT ![w] = <<>>]
    /\ started' = [started EXCEPT ![w] = <<>>]
    /\ last_end' = [last_end EXCEPT ![w] = NoEnd]

\* mutant: the session id of the request is not recorded
_handle_intent_KeepsSession(w, m) ==
    /\ data_loaded
    /\ m.kind = "intent"
    /\ m.skill_id = skill_id
    /\ Enter(w, m, "acknowledge")
    /\ session_ended' = FALSE
    /\ UNCHANGED <<skill_vars, env_vars, shutdown_vars, control_vars,
                   settings_vars, uuid_count, call_vars>>

\* _handle_intent, its first statement: the session id of the request
\* becomes the skill's session id
_handle_intent(w, m) ==
    /\ data_loaded
    /\ m.kind = "intent"
    /\ m.skill_id = skill_id
    /\ Enter(w, m, "acknowledge")
    /\ _mycroft_session_id' = m.mycroft_session_id
    /\ session_ended' = FALSE
    /\ UNCHANGED <<dialog_renderer, data_loaded, env_vars, shutdown_vars,
                   control_vars, settings_vars, uuid_count, call_vars>>

\* mutant: the stop handler keeps the active session id
__handle_skill_stop_KeepsId(w, m) ==
    /\ m.kind = "mycroft.skill.stop"
    /\ IF m.skill_id = skill_id
       THEN /\ Enter(w, m, "handler")
            /\ session_ended' = FALSE
            /\ UNCHANGED _mycroft_session_id
       ELSE /\ Enter(w, m, "on_end")
            /\ UNCHANGED <<_mycroft_session_id, session_ended>>
    /\ UNCHANGED <<dialog_renderer, data_loaded, env_vars, shutdown_vars,
                   control_vars, settings_vars, uuid_count, call_vars>>

\* mutant: the skill id of the stop message is not checked
__handle_skill_stop_AnySkill(w, m) ==
    /\ m.kind = "mycroft.skill.stop"
    /\ Enter(w, m, "handler")
    /\ _mycroft_session_id' = m.mycroft_session_id
    /\ session_ended' = FALSE
    /\ UNCHANGED <<dialog_renderer, data_loaded, env_vars, shutdown_vars,
                   control_vars, settings_vars, uuid_count, call_vars>>

\* __handle_skill_stop up to the call of self.stop(); the handler is
\* registered with add_event, so on_end follows it
__handle_skill_stop(w, m) ==
    /\ m.kind = "mycroft.skill.stop"
    /\ IF m.skill_id = skill_id
       THEN /\ Enter(w, m, "handler")
            /\ _mycroft_session_id' = m.mycroft_session_id
            /\ session_ended' = FALSE
       ELSE /\ Enter(w, m, "on_end")
            /\ UNCHANGED <<_mycroft_session_id, session_ended>>
    /\ UNCHANGED <<dialog_renderer, data_loaded, env_vars, shutdown_vars,
                   control_vars, settings_vars, uuid_count, call_vars>>

\* mutant: only the skill id is checked
__handle_skill_response_AnySession(w, m) ==
    /\ m.kind = "mycroft.skill-response"
    /\ IF m.skill_id = skill_id
       THEN Enter(w, m, "acknowledge")
       ELSE Enter(w, m, "done")
    /\ UNCHANGED <<skill_vars, env_vars, shutdown_vars, control_vars,
                   life_vars, uuid_count, call_vars>>

\* __handle_skill_response: the check of the skill id and the session id
__handle_skill_response(w, m) ==
    /\ m.kind = "mycroft.skill-response"
    /\ IF m.skill_id = skill_id /\ m.mycroft_session_id = _mycroft_session_id
       THEN Enter(w, m, "acknowledge")
       ELSE Enter(w, m, "done")
    /\ UNCHANGED <<skill_vars, env_vars, shutdown_vars, control_vars,
                   life_vars, uuid_count, call_vars>>

\* mutant: a sound that is not found is an exception of the try block
Acknowledge_MissingIsFatal(w) ==
    /\ pc[w] = "acknowledge"
    /\ IF sounds_acknowledge = "missing"
       THEN /\ uuid_count < MaxUuid
            /\ pc' = [pc EXCEPT ![w] = "except"]
            /\ outcome' = [outcome EXCEPT ![w] =
                  [how |-> "raised", calls |-> 0, builder |-> FALSE]]
            /\ UNCHANGED <<emitted, invoked>>
       ELSE /\ emitted' = [emitted EXCEPT ![w] = @ \o acknowledge]
            /\ invoked' = [invoked EXCEPT ![w] = TRUE]
            /\ pc' = [pc EXCEPT ![w] = "handler"]
            /\ UNCHANGED outcome
    /\ UNCHANGED <<skill_vars, env_vars, shutdown_vars, control_vars,
                   life_vars, uuid_count, inbound, n_calls, held,
                   result_message, started, last_end, call_vars>>

\* self.acknowledge() in _handle_intent and __handle_skill_response, then
\* the handler is invoked
Acknowledge(w) ==
    /\ pc[w] = "acknowledge"
    /\ emitted' = [emitted EXCEPT ![w] = @ \o acknowledge]
    /\ invoked' = [invoked EXCEPT ![w] = TRUE]
    /\ pc' = [pc EXCEPT ![w] = "handler"]
    /\ UNCHANGED <<skill_vars, env_vars, shutdown_vars, control_vars,
                   life_vars, uuid_count, inbound, n_calls, held, outcome,
                   result_message, started, last_end, call_vars>>

\* the handler is left, after `calls` calls of the session builders, by an
\* exception of the last call when `builder`: what it counted and held is gone
Leave(w, how, calls, builder) ==
    /\ outcome' = [outcome EXCEPT ![w] =
          [how |-> how, calls |-> calls, builder |-> builder]]
    /\ n_calls' = [n_calls EXCEPT ![w] = 0]
    /\ held' = [held EXCEPT ![w] = NoneMessage]

\* an exception in the intent handler leads to one more uuid4()
MayRaise(w) == inbound[w].kind = "intent" => uuid_count < MaxUuid

\* what a call of continue_session, end_session or abort_session returns;
\* the handler passes a state when it expects a response
SessionCalls ==
    {continue_session(in, sid, IF in.expect_response THEN "st1" ELSE None) :
        in \in HandlerInputs, sid \in ExplicitIds}
    \cup {end_session(in, sid) : in \in HandlerInputs, sid \in ExplicitIds}
    \cup {abort_session}

\* the handler calls continue_session, end_session or abort_session; it
\* holds the envelope to return it, or drops it
HandlerBuilds(w, calls) ==
    /\ pc[w] = "handler"
    /\ n_calls[w] < MaxBuilt
    /\ \E built \in calls :
          IF built.raised
          THEN /\ MayRaise(w)
               /\ pc' = [pc EXCEPT ![w] = "except"]
               /\ Leave(w, "raised", n_calls[w] + 1, TRUE)
          ELSE /\ held' \in {held, [held EXCEPT ![w] = built.message]}
               /\ n_calls' = [n_calls EXCEPT ![w] = @ + 1]
               /\ UNCHANGED <<pc, outcome>>
    /\ UNCHANGED <<skill_vars, env_vars, shutdown_vars, control_vars,
                   life_vars, uuid_count, inbound, invoked, result_message,
                   emitted, started, last_end, call_vars>>

\* the arguments the handlers pass to emit_start_session: <<keyword
\* arguments of _build_actions, mycroft_session_id, continue_session>>
StartCalls ==
    {<<[DefaultInput EXCEPT !.speak = "Hello"], None, Absent>>,
     <<[DefaultInput EXCEPT !.speak = "Hello", !.expect_response = TRUE],
       "s9", "True">>,
     <<[DefaultInput EXCEPT !.dialog = OneItem("d1"), !.gui = OneItem("g2")],
       None, "False">>}

\* mutant: the skill adopts the id of the session it starts
HandlerStartsSession_AdoptsId(w) ==
    /\ pc[w] = "handler"
    /\ n_calls[w] < MaxBuilt
    /\ uuid_count < MaxUuid
    /\ \E c \in StartCalls :
          LET start == emit_start_session(c[1], c[2], c[3]) IN
          /\ uuid_count' = IF c[2] = None THEN uuid_count + 1 ELSE uuid_count
          /\ IF start.raised
             THEN /\ inbound[w].kind = "intent" => uuid_count' < MaxUuid
                  /\ pc' = [pc EXCEPT ![w] = "except"]
                  /\ Leave(w, "raised", n_calls[w] + 1, TRUE)
                  /\ UNCHANGED <<emitted, started, _mycroft_session_id>>
             ELSE /\ emitted' = [emitted EXCEPT ![w] = Append(@, start.message)]
                  /\ started' = [started EXCEPT ![w] = Append(@,
                        [given |-> c[2], returned |-> start.mycroft_session_id])]
                  /\ n_calls' = [n_calls EXCEPT ![w] = @ + 1]
                  /\ _mycroft_session_id' = start.mycroft_session_id
                  /\ UNCHANGED <<pc, held, outcome>>
    /\ UNCHANGED <<dialog_renderer, data_loaded, env_vars, shutdown_vars,
                   control_vars, life_vars, inbound, invoked, result_message,
                   last_end, call_vars>>

\* the handler calls emit_start_session
HandlerStartsSession(w) ==
    /\ pc[w] = "handler"
    /\ n_calls[w] < MaxBuilt
    /\ uuid_count < MaxUuid
    /\ \E c \in StartCalls :
          LET start == emit_start_session(c[1], c[2], c[3]) IN
          /\ uuid_count' = IF c[2] = None THEN uuid_count + 1 ELSE uuid_count
          /\ IF start.raised
             THEN /\ inbound[w].kind = "intent" => uuid_count' < MaxUuid
                  /\ pc' = [pc EXCEPT ![w] = "except"]
                  /\ Leave(w, "raised", n_calls[w] + 1, TRUE)
                  /\ UNCHANGED <<emitted, started>>
             ELSE /\ emitted' = [emitted EXCEPT ![w] = Append(@, start.message)]
                  /\ started' = [started EXCEPT ![w] = Append(@,
                        [given |-> c[2], returned |-> start.mycroft_session_id])]
                  /\ n_calls' = [n_calls EXCEPT ![w] = @ + 1]
                  /\ UNCHANGED <<pc, held, outcome>>
    /\ UNCHANGED <<skill_vars, env_vars, shutdown_vars, control_vars,
                   life_vars, inbound, invoked, result_message, last_end,
                   call_vars>>

\* the handler returns None or the envelope it holds
HandlerReturns(w) ==
    /\ pc[w] = "handler"
    /\ \E r \in {NoneMessage, held[w]} :
          /\ result_message' = [result_message EXCEPT ![w] = r]
          /\ Leave(w, IF r = NoneMessage THEN "returned None"
                      ELSE "returned envelope", n_calls[w], FALSE)
    /\ pc' = [pc EXCEPT ![w] = "returned"]
    /\ UNCHANGED <<skill_vars, env_vars, shutdown_vars, control_vars,
                   life_vars, uuid_count, inbound, invoked, emitted, started,
                   last_end, call_vars>>

\* the handler raises
HandlerRaises(w) ==
    /\ pc[w] = "handler"
    /\ MayRaise(w)
    /\ pc' = [pc EXCEPT ![w] = "except"]
    /\ Leave(w, "raised", n_calls[w], FALSE)
    /\ UNCHANGED <<skill_vars, env_vars, shutdown_vars, control_vars,
                   life_vars, uuid_count, inbound, invoked, result_message,
                   emitted, started, last_end, call_vars>>

\* mutant: the except block of _handle_intent only logs
Except_OnlyLogs(w) ==
    /\ pc[w] = "except"
    /\ pc' = [pc EXCEPT ![w] = "returned"]
    /\ UNCHANGED <<skill_vars, env_vars, shutdown_vars, control_vars,
                   life_vars, uuid_count, inbound, invoked, n_calls, held,
                   outcome, result_message, emitted, started, last_end,
                   call_vars>>

\* mutant: the except block of __handle_skill_response speaks the error too
Except_SpeaksForAll(w) ==
    /\ pc[w] = "except"
    /\ IF inbound[w].kind # "mycroft.skill.stop"
       THEN LET spoken == emit_start_session(
                    [DefaultInput EXCEPT !.dialog = OneItem("skill.error")],
                    None, Absent) IN
            /\ uuid_count' = uuid_count + 1
            /\ IF spoken.raised
               THEN /\ pc' = [pc EXCEPT ![w] = "escaped"]
                    /\ UNCHANGED <<emitted, started>>
               ELSE /\ pc' = [pc EXCEPT ![w] = "returned"]
                    /\ emitted' = [emitted EXCEPT ![w] = Append(@, spoken.message)]
                    /\ started' = [started EXCEPT ![w] = Append(@,
                          [given |-> None, returned |-> spoken.mycroft_session_id])]
       ELSE /\ pc' = [pc EXCEPT ![w] = "returned"]
            /\ UNCHANGED <<uuid_count, emitted, started>>
    /\ UNCHANGED <<skill_vars, env_vars, shutdown_vars, control_vars,
                   life_vars, inbound, invoked, n_calls, held, outcome,
                   result_message, last_end, call_vars>>

\* the except block: _handle_intent speaks the error with emit_start_session
\* (an exception of that call leaves _handle_intent); __handle_skill_stop
\* and __handle_skill_response log
Except(w) ==
    /\ pc[w] = "except"
    /\ IF inbound[w].kind = "intent"
       THEN LET spoken == emit_start_session(
                    [DefaultInput EXCEPT !.dialog = OneItem("skill.error")],
                    None, Absent) IN
            /\ uuid_count' = uuid_count + 1
            /\ IF spoken.raised
               THEN /\ pc' = [pc EXCEPT ![w] = "escaped"]
                    /\ UNCHANGED <<emitted, started>>
               ELSE /\ pc' = [pc EXCEPT ![w] = "returned"]
                    /\ emitted' = [emitted EXCEPT ![w] = Append(@, spoken.message)]
                    /\ started' = [started EXCEPT ![w] = Append(@,
                          [given |-> None, returned |-> spoken.mycroft_session_id])]
       ELSE /\ pc' = [pc EXCEPT ![w] = "returned"]
            /\ UNCHANGED <<uuid_count, emitted, started>>
    /\ UNCHANGED <<skill_vars, env_vars, shutdown_vars, control_vars,
                   life_vars, inbound, invoked, n_calls, held, outcome,
                   result_message, last_end, call_vars>>

\* where worker w goes when its callback has returned: to on_end when the
\* callback was registered with add_event, as __handle_skill_stop is
AfterCallback(w) == IF inbound[w].kind \in Registered THEN "on_end" ELSE "done"

\* envelope msg ends the session the skill takes to be active
EndsSession(msg) ==
    /\ msg.type = "mycroft.session.end"
    /\ msg.mycroft_session_id = _mycroft_session_id

\* mutant: the end-session fallback is emitted whatever the handler returned
Finish_AlwaysEnds(w) ==
    /\ pc[w] = "returned"
    /\ emitted' = [emitted EXCEPT ![w] =
          (IF result_message[w] = NoneMessage THEN @ ELSE Append(@, result_message[w]))
          \o <<end_session(DefaultInput, None).message>>]
    /\ session_ended' = TRUE
    /\ pc' = [pc EXCEPT ![w] = AfterCallback(w)]
    /\ UNCHANGED <<skill_vars, env_vars, shutdown_vars, control_vars,
                   settings_vars, uuid_count, inbound, invoked, n_calls, held,
                   outcome, result_message, started, last_end, call_vars>>

\* "if result_message is None: result_message = self.end_session()", then
\* self.bus.emit(result_message)
Finish(w) ==
    /\ pc[w] = "returned"
    /\ LET result == IF result_message[w] = NoneMessage
                     THEN end_session(DefaultInput, None).message
                     ELSE result_message[w] IN
       /\ result_message' = [result_message EXCEPT ![w] = result]
       /\ emitted' = [emitted EXCEPT ![w] = Append(@, result)]
       /\ session_ended' = EndsSession(result)
    /\ pc' = [pc EXCEPT ![w] = AfterCallback(w)]
    /\ UNCHANGED <<skill_vars, env_vars, shutdown_vars, control_vars,
                   settings_vars, uuid_count, inbound, invoked, n_calls, held,
                   outcome, started, last_end, call_vars>>

\* save_settings(self.settings_write_path, self.settings): the file holds
\* the settings, or the call raises and the file is as it was
SaveOutcomes == {"saved", "failed"}
save_settings(how) == IF how = "saved" THEN settings ELSE stored

\* message.forward(msg_type, skill_data), for the handler registered as name
HandlerMessage(msg_type, name) ==
    [type |-> msg_type, name |-> name, skill_id |-> skill_id,
     exception |-> skill_data[name], mycroft_session_id |-> Absent]

\* mutant: the snapshot is not replaced after the save
on_end_KeepsSnapshot(w) ==
    /\ pc[w] = "on_end"
    /\ LET dirty == settings # _initial_settings
           info == handler_info(inbound[w].kind) IN
       \E how \in (IF dirty THEN SaveOutcomes ELSE {"none"}) :
          /\ settings' = settings
          /\ stored' = IF dirty THEN save_settings(how) ELSE stored
          /\ _initial_settings' = _initial_settings
          /\ settings_point' = IF how = "failed" THEN "failed" ELSE "clean"
          /\ emitted' = [emitted EXCEPT ![w] =
                IF how # "failed" /\ info # None
                THEN Append(@, HandlerMessage(info \o ".complete", inbound[w].kind))
                ELSE @]
          /\ pc' = [pc EXCEPT ![w] = IF how = "failed" THEN "escaped" ELSE "done"]
          /\ last_end' = [last_end EXCEPT ![w] =
                [ran |-> TRUE, dirty |-> dirty, save |-> how,
                 point |-> settings_point,
                 written |-> (stored' = settings'),
                 synced |-> (_initial_settings' = settings'),
                 complete |-> (how # "failed" /\ info # None)]]
    /\ UNCHANGED <<skill_vars, env_vars, shutdown_vars, control_vars,
                   session_ended, skill_data, uuid_count, inbound, invoked,
                   n_calls, held, outcome, result_message, started, call_vars>>

\* mutant: the snapshot is replaced before the save is attempted
on_end_SnapshotFirst(w) ==
    /\ pc[w] = "on_end"
    /\ LET dirty == settings # _initial_settings
           info == handler_info(inbound[w].kind) IN
       \E how \in (IF dirty THEN SaveOutcomes ELSE {"none"}) :
          /\ settings' = settings
          /\ stored' = IF dirty THEN save_settings(how) ELSE stored
          /\ _initial_settings' = settings
          /\ settings_point' = IF how = "failed" THEN "failed" ELSE "clean"
          /\ emitted' = [emitted EXCEPT ![w] =
                IF how # "failed" /\ info # None
                THEN Append(@, HandlerMessage(info \o ".complete", inbound[w].kind))
                ELSE @]
          /\ pc' = [pc EXCEPT ![w] = IF how = "failed" THEN "escaped" ELSE "done"]
          /\ last_end' = [last_end EXCEPT ![w] =
                [ran |-> TRUE, dirty |-> dirty, save |-> how,
                 point |-> settings_point,
                 written |-> (stored' = settings'),
                 synced |-> (_initial_settings' = settings'),
                 complete |-> (how # "failed" /\ info # None)]]
    /\ UNCHANGED <<skill_vars, env_vars, shutdown_vars, control_vars,
                   session_ended, skill_data, uuid_count, inbound, invoked,
                   n_calls, held, outcome, result_message, started, call_vars>>

\* on_end of add_event: the settings are saved when they differ from the
\* snapshot, then the snapshot is replaced by a copy of them; the message
\* handler_info + ".complete" is emitted when handler_info was given.  An
\* exception of save_settings leaves on_end and the wrapper.
on_end(w) ==
    /\ pc[w] = "on_end"
    /\ IF ~use_settings
       THEN \* self._initial_settings was never assigned: AttributeError
            /\ pc' = [pc EXCEPT ![w] = "escaped"]
            /\ last_end' = [last_end EXCEPT ![w] =
                  [ran |-> TRUE, dirty |-> FALSE, save |-> "AttributeError",
                   point |-> settings_point, written |-> FALSE,
                   synced |-> FALSE, complete |-> FALSE]]
            /\ UNCHANGED <<settings, stored, _initial_settings,
                           settings_point, emitted>>
       ELSE LET dirty == settings # _initial_settings
                info == handler_info(inbound[w].kind) IN
            \E how \in (IF dirty THEN SaveOutcomes ELSE {"none"}) :
               /\ settings' = settings
               /\ stored' = IF dirty THEN save_settings(how) ELSE stored
               /\ _initial_settings' =
                     IF how = "saved" THEN settings ELSE _initial_settings
               /\ settings_point' = IF how = "failed" THEN "failed" ELSE "clean"
               /\ emitted' = [emitted EXCEPT ![w] =
                     IF how # "failed" /\ info # None
                     THEN Append(@, HandlerMessage(info \o ".complete",
                                                   inbound[w].kind))
                     ELSE @]
               /\ pc' = [pc EXCEPT ![w] =
                     IF how = "failed" THEN "escaped" ELSE "done"]
               /\ last_end' = [last_end EXCEPT ![w] =
                     [ran |-> TRUE, dirty |-> dirty, save |-> how,
                      point |-> settings_point,
                      written |-> (stored' = settings'),
                      synced |-> (_initial_settings' = settings'),
                      complete |-> (how # "failed" /\ info # None)]]
    /\ UNCHANGED <<skill_vars, env_vars, shutdown_vars, control_vars,
                   session_ended, skill_data, uuid_count, inbound, invoked,
                   n_calls, held, outcome, result_message, started,
                   call_vars>>

\* the mycroft.gui.handle-idle messages: for this skill or another one
IdleMessages ==
    {[kind |-> "mycroft.gui.handle-idle", skill_id |-> s,
      mycroft_session_id |-> None] : s \in {skill_id, other_skill_id}}

\* message.response(data={"handled": handled})
IdleResponse(handled) ==
    [type |-> "mycroft.gui.handle-idle.response", handled |-> handled,
     mycroft_session_id |-> Absent, skill_id |-> Absent, actions |-> <<>>,
     continue_session |-> Absent, state |-> Absent, aborted |-> Absent,
     uri |-> Absent]

\* __handle_gui_idle up to the call of self.handle_gui_idle()
__handle_gui_idle(w, m) ==
    /\ m \in IdleMessages
    /\ IF m.skill_id = skill_id
       THEN Enter(w, m, "handle_gui_idle")
       ELSE Enter(w, m, "done")
    /\ UNCHANGED <<skill_vars, env_vars, shutdown_vars, control_vars,
                   life_vars, uuid_count, call_vars>>

\* mutant: an exception of handle_gui_idle is logged and nothing is emitted
handle_gui_idle_NoFinally(w) ==
    /\ pc[w] = "handle_gui_idle"
    /\ \E how \in {"handled True", "handled False", "idle raised"} :
          /\ Leave(w, how, 0, FALSE)
          /\ emitted' = [emitted EXCEPT ![w] =
                IF how = "idle raised" THEN @
                ELSE Append(@, IdleResponse(how = "handled True"))]
    /\ invoked' = [invoked EXCEPT ![w] = TRUE]
    /\ pc' = [pc EXCEPT ![w] = "done"]
    /\ UNCHANGED <<skill_vars, env_vars, shutdown_vars, control_vars,
                   life_vars, uuid_count, inbound, result_message, started,
                   last_end, call_vars>>

\* self.handle_gui_idle() returns a boolean or raises (handled then keeps
\* its value False), and the finally block emits the response
handle_gui_idle(w) ==
    /\ pc[w] = "handle_gui_idle"
    /\ \E how \in {"handled True", "handled False", "idle raised"} :
          /\ Leave(w, how, 0, FALSE)
          /\ emitted' = [emitted EXCEPT ![w] =
                Append(@, IdleResponse(how = "handled True"))]
    /\ invoked' = [invoked EXCEPT ![w] = TRUE]
    /\ pc' = [pc EXCEPT ![w] = "done"]
    /\ UNCHANGED <<skill_vars, env_vars, shutdown_vars, control_vars,
                   life_vars, uuid_count, inbound, result_message, started,
                   last_end, call_vars>>

\* one step of worker w, for the bus messages msgs
Step(w, msgs) ==
    \/ \E m \in msgs : _handle_intent(w, m)
    \/ \E m \in msgs : __handle_skill_stop(w, m)
    \/ \E m \in msgs : __handle_skill_response(w, m)
    \/ Acknowledge(w)
    \/ HandlerReturns(w)
    \/ HandlerRaises(w)
    \/ Except(w)
    \/ Finish(w)
    \/ on_end(w)

\* one worker: a bus message is handled to completion before the next
Next ==
    \/ load_data_files
    \/ Step("w1", Inbound)
    \/ HandlerBuilds("w1", SessionCalls)
    \/ HandlerStartsSession("w1")
    \/ \E m \in IdleMessages : __handle_gui_idle("w1", m)
    \/ handle_gui_idle("w1")

Spec == Init /\ [][Next]_vars

(***************************************************************************)
(* Several workers: the bus client runs the callbacks of one skill on a    *)
(* pool of threads.  The skill is loaded, its files are found, and the     *)
(* handlers call the session builders with their defaults.                 *)
(***************************************************************************)
InitConcurrent ==
    /\ _mycroft_session_id = None
    /\ dialog_renderer = "loaded"
    /\ data_loaded = TRUE
    /\ root_dir = [dialogs |-> TRUE, ui |-> PageNames]
    /\ sounds_acknowledge = "found"
    /\ uuid_count = 0
    /\ _init_settings({DefaultSettings})
    /\ InitControl({NoStates}, {"undefined"})
    /\ InitWorkers
    /\ call = DefaultInput
    /\ ret = NotCalled

\* the messages of two sessions, addressed to this skill
InboundConcurrent ==
    {m \in Inbound : m.skill_id = skill_id /\ m.mycroft_session_id # None}

DefaultCalls ==
    {continue_session([DefaultInput EXCEPT !.expect_response = TRUE], None, None),
     end_session(DefaultInput, None)}

NextConcurrent ==
    \E w \in Workers :
        \/ Step(w, InboundConcurrent)
        \/ HandlerBuilds(w, DefaultCalls)

SpecConcurrent == InitConcurrent /\ [][NextConcurrent]_vars

(***************************************************************************)
(* The lifecycle wrapper of add_event around a handler of the skill, the   *)
(* settings the handlers change, and the remote settings changes.  One     *)
(* worker; the skill is loaded and plays no acknowledgment sound, and its  *)
(* handlers change settings, then return None or raise.                    *)
(***************************************************************************)
InitLifecycle ==
    /\ _mycroft_session_id = None
    /\ dialog_renderer = "loaded"
    /\ data_loaded = TRUE
    /\ root_dir = [dialogs |-> TRUE, ui |-> PageNames]
    /\ sounds_acknowledge = None
    /\ uuid_count = 0
    /\ _init_settings({DefaultSettings})
    /\ InitControl({NoStates}, {"undefined"})
    /\ InitWorkers
    /\ call = DefaultInput
    /\ ret = NotCalled

\* the messages of one session for this skill, and the events of the
\* handlers the skill registered with add_event
InboundLifecycle ==
    {m \in Inbound : m.skill_id = skill_id /\ m.mycroft_session_id = "s1"}
Events ==
    {[kind |-> name, skill_id |-> None, mycroft_session_id |-> None] :
        name \in Registered \ {"mycroft.skill.stop"}}

\* the wrapper made by create_wrapper is called with bus message m
wrapper(w, m) ==
    /\ m \in Events
    /\ ~down.cleared
    /\ Enter(w, m, "on_start")
    /\ UNCHANGED <<skill_vars, env_vars, shutdown_vars, control_vars,
                   life_vars, uuid_count, call_vars>>

\* on_start of add_event, then the handler is called
on_start(w) ==
    /\ pc[w] = "on_start"
    /\ LET info == handler_info(inbound[w].kind) IN
       emitted' = [emitted EXCEPT ![w] =
          IF info # None
          THEN Append(@, HandlerMessage(info \o ".start", inbound[w].kind))
          ELSE @]
    /\ invoked' = [invoked EXCEPT ![w] = TRUE]
    /\ pc' = [pc EXCEPT ![w] = "event_handler"]
    /\ UNCHANGED <<skill_vars, env_vars, shutdown_vars, control_vars,
                   life_vars, uuid_count, inbound, n_calls, held, outcome,
                   result_message, started, last_end, call_vars>>

\* a handler of the skill assigns to an entry of self.settings
HandlerMutatesSettings(w) ==
    /\ use_settings
    /\ pc[w] \in {"handler", "event_handler"}
    /\ \E k \in SettingKeys : \E v \in 0..1 :
          /\ v # settings[k]
          /\ settings' = [settings EXCEPT ![k] = v]
    /\ settings_point' = "mutated"
    /\ UNCHANGED <<skill_vars, env_vars, shutdown_vars, control_vars,
                   session_ended, _initial_settings, stored, skill_data,
                   uuid_count, worker_vars, call_vars>>

\* the wrapped handler returns: the wrapper goes on to on_end
EventReturns(w) ==
    /\ pc[w] = "event_handler"
    /\ pc' = [pc EXCEPT ![w] = "on_end"]
    /\ Leave(w, "returned None", 0, FALSE)
    /\ UNCHANGED <<skill_vars, env_vars, shutdown_vars, control_vars,
                   life_vars, uuid_count, inbound, invoked, result_message,
                   emitted, started, last_end, call_vars>>

\* the wrapped handler raises: the wrapper calls on_error, then on_end
EventRaises(w) ==
    /\ pc[w] = "event_handler"
    /\ pc' = [pc EXCEPT ![w] = "on_error"]
    /\ Leave(w, "raised", 0, FALSE)
    /\ UNCHANGED <<skill_vars, env_vars, shutdown_vars, control_vars,
                   life_vars, uuid_count, inbound, invoked, result_message,
                   emitted, started, last_end, call_vars>>

\* mutant: the error phrase is spoken ("self.speak(msg)")
on_error_Speaks(w) ==
    /\ pc[w] = "on_error"
    /\ skill_data' = [skill_data EXCEPT ![inbound[w].kind] = "repr(e)"]
    /\ emitted' = [emitted EXCEPT ![w] = Append(@,
          [Envelope("speak", _mycroft_session_id, <<>>)
              EXCEPT !.skill_id = Absent])]
    /\ pc' = [pc EXCEPT ![w] = "on_end"]
    /\ UNCHANGED <<skill_vars, env_vars, shutdown_vars, control_vars,
                   session_ended, settings, _initial_settings, stored,
                   settings_point, uuid_count, inbound, invoked, n_calls, held,
                   outcome, result_message, started, last_end, call_vars>>

\* on_error of add_event: the error phrase is rendered and logged, and the
\* exception is recorded in skill_data
on_error(w) ==
    /\ pc[w] = "on_error"
    /\ skill_data' = [skill_data EXCEPT ![inbound[w].kind] = "repr(e)"]
    /\ pc' = [pc EXCEPT ![w] = "on_end"]
    /\ UNCHANGED <<skill_vars, env_vars, shutdown_vars, control_vars,
                   session_ended, settings, _initial_settings, stored,
                   settings_point, uuid_count, inbound, invoked, n_calls, held,
                   outcome, result_message, emitted, started, last_end,
                   call_vars>>

\* handle_settings_change for a message with the given data: when the data
\* has an entry for this skill the settings are updated and saved, and the
\* snapshot is not touched; the skill has no settings_change_callback
handle_settings_change(data, how) ==
    /\ \A w \in Workers : Free(w)
    /\ IF ~data.for_skill
       THEN UNCHANGED <<settings, stored, settings_point>>
       ELSE /\ settings' = update(settings, data.remote_settings)
            /\ stored' = IF how = "saved" THEN settings' ELSE stored
            /\ settings_point' = IF how = "saved" THEN "remote" ELSE "mutated"
    /\ UNCHANGED <<skill_vars, env_vars, shutdown_vars, control_vars,
                   session_ended, _initial_settings, skill_data, uuid_count,
                   worker_vars, call_vars>>

NextLifecycle ==
    \/ Step("w1", InboundLifecycle)
    \/ \E m \in Events : wrapper("w1", m)
    \/ on_start("w1")
    \/ HandlerMutatesSettings("w1")
    \/ EventReturns("w1")
    \/ EventRaises("w1")
    \/ on_error("w1")
    \/ \E data \in SettingsChanged : \E how \in SaveOutcomes :
          handle_settings_change(data, how)

SpecLifecycle == InitLifecycle /\ [][NextLifecycle]_vars

(***************************************************************************)
(* The end of the skill: default_shutdown, for a skill constructed with    *)
(* or without settings.                                                    *)
(***************************************************************************)
\* __init__ with use_settings False: self.settings is None, _init_settings
\* is not called and self._initial_settings is never assigned
NoSettings(files) ==
    /\ use_settings = FALSE
    /\ stored \in files
    /\ settings = None
    /\ _initial_settings = Absent
    /\ settings_point = "clean"
    /\ skill_data = [name \in Registered |-> Absent]

\* a loaded skill, constructed with use_settings True or False
InitShutdown ==
    /\ _mycroft_session_id = None
    /\ dialog_renderer = "loaded"
    /\ data_loaded = TRUE
    /\ root_dir = [dialogs |-> TRUE, ui |-> PageNames]
    /\ sounds_acknowledge = None
    /\ uuid_count = 0
    /\ \/ _init_settings({DefaultSettings})
       \/ NoSettings({DefaultSettings})
    /\ InitControl({NoStates}, {"undefined"})
    /\ InitWorkers
    /\ call = DefaultInput
    /\ ret = NotCalled

\* what the hooks shutdown() and stop() of a skill class can do
HookOutcomes == {"returns", "raises"}

\* Message("detach_skill", {"skill_id": str(self.skill_id) + ":"})
DetachSkill == [type |-> "detach_skill", skill_id |-> skill_id \o ":"]

\* the steps of default_shutdown after the settings were stored
AfterStore ==
    <<"gui.shutdown", "event_scheduler.shutdown", "events.clear",
      "detach_skill", "stop">>

\* default_shutdown: shutdown() in a try block, the settings stored when
\* they differ from the snapshot and the root directory exists, the gui and
\* the event scheduler shut down, the events cleared, detach_skill emitted
\* and stop() called in a try block, its result dropped; the comparison
\* with the snapshot raises AttributeError for a skill without settings,
\* and an exception of save_settings is not caught
default_shutdown ==
    /\ \A w \in Workers : Free(w)
    /\ ~down.ran
    /\ \E hook \in HookOutcomes, exists \in BOOLEAN, stop_how \in HookOutcomes :
          LET dirty == use_settings /\ settings # _initial_settings
              saves == dirty /\ exists IN
          \E how \in (IF saves THEN SaveOutcomes ELSE {"none"}) :
             /\ stored' = IF saves THEN save_settings(how) ELSE stored
             /\ down' =
                   IF ~use_settings
                   THEN [NotDown EXCEPT !.ran = TRUE, !.how = "AttributeError",
                                        !.log = <<"shutdown">>,
                                        !.exists = exists]
                   ELSE IF how = "failed"
                   THEN [NotDown EXCEPT !.ran = TRUE, !.how = "save raised",
                                        !.log = <<"shutdown", "save_settings">>,
                                        !.dirty = dirty, !.exists = exists]
                   ELSE [ran |-> TRUE, how |-> "completed",
                         log |-> <<"shutdown">>
                                 \o (IF saves THEN <<"save_settings">> ELSE <<>>)
                                 \o AfterStore,
                         dirty |-> dirty, exists |-> exists,
                         written |-> saves, cleared |-> TRUE,
                         emitted |-> <<DetachSkill>>,
                         stopped |-> IF stop_how = "returns"
                                     THEN stop.message ELSE NoneMessage]
    /\ UNCHANGED <<skill_vars, env_vars, use_settings, control_vars,
                   session_ended, settings, _initial_settings,
                   settings_point, skill_data, uuid_count, worker_vars,
                   call_vars>>

NextShutdown ==
    \/ \E m \in Events : wrapper("w1", m)
    \/ on_start("w1")
    \/ HandlerMutatesSettings("w1")
    \/ EventReturns("w1")
    \/ EventRaises("w1")
    \/ on_error("w1")
    \/ on_end("w1")
    \/ default_shutdown

SpecShutdown == InitShutdown /\ [][NextShutdown]_vars

(***************************************************************************)
(* The state of the skill: change_state, and the listeners that enable and *)
(* disable one intent.                                                     *)
(***************************************************************************)
InitState ==
    /\ _mycroft_session_id = None
    /\ dialog_renderer = "loaded"
    /\ data_loaded = TRUE
    /\ root_dir = [dialogs |-> TRUE, ui |-> PageNames]
    /\ sounds_acknowledge = None
    /\ uuid_count = 0
    /\ _init_settings({DefaultSettings})
    /\ InitControl({NoStates, SkillStates}, {"undefined", "system"})
    /\ InitWorkers
    /\ call = DefaultInput
    /\ ret = NotCalled

\* what change_state did, as entries of last_change.did
Did(op, arg) == [op |-> op, arg |-> arg]

\* "for intent in ...: self.disable_intent(intent)", then the same with
\* enable_intent: the calls, in the order of the list
Calls(op, intents) == [i \in 1..Len(intents) |-> Did(op, intents[i])]

\* the registered intents among those of a list
RegisteredOf(intents) ==
    {intents[i] : i \in 1..Len(intents)} \cap RegisteredIntents

\* the messages change_state emits for the new states "inactive", "active"
StateRequests(new_state) ==
    (IF new_state = "inactive"
     THEN <<Did("emit", <<"deactivate_skill_request", skill_id>>)>>
     ELSE <<>>) \o
    (IF new_state = "active"
     THEN <<Did("emit", <<"active_skill_request", skill_id,
                          skill_control.category>>)>>
     ELSE <<>>)

\* mutant: the intents of the new state are enabled before those of the old
\* state are disabled
change_state_EnablesFirst(new_state) ==
    LET states == skill_control.states
        state == skill_control.state IN
    /\ IF \/ ~states.given
          \/ new_state \notin StateNames(states)
          \/ new_state = state
       THEN /\ UNCHANGED <<skill_control, detached_intents>>
            /\ last_change' =
                  [new_state |-> new_state, from |-> state, to |-> state,
                   before |-> detached_intents, after |-> detached_intents,
                   did |-> <<>>]
       ELSE LET old == states.intents[state]
                new == states.intents[new_state]
                after == (detached_intents \ RegisteredOf(new))
                             \cup RegisteredOf(old) IN
            /\ skill_control' = [skill_control EXCEPT !.state = new_state]
            /\ detached_intents' = after
            /\ last_change' =
                  [new_state |-> new_state, from |-> state, to |-> new_state,
                   before |-> detached_intents, after |-> after,
                   did |-> Calls("enable_intent", new) \o
                           Calls("disable_intent", old) \o
                           <<Did("state", new_state)>> \o
                           StateRequests(new_state)]
    /\ UNCHANGED <<skill_vars, env_vars, shutdown_vars, life_vars, uuid_count,
                   worker_vars, call_vars>>

\* change_state(new_state)
change_state(new_state) ==
    LET states == skill_control.states
        state == skill_control.state IN
    /\ IF \/ ~states.given
          \/ new_state \notin StateNames(states)
          \/ new_state = state
       THEN /\ UNCHANGED <<skill_control, detached_intents>>
            /\ last_change' =
                  [new_state |-> new_state, from |-> state, to |-> state,
                   before |-> detached_intents, after |-> detached_intents,
                   did |-> <<>>]
       ELSE LET old == states.intents[state]
                new == states.intents[new_state]
                after == (detached_intents \cup RegisteredOf(old))
                             \ RegisteredOf(new) IN
            /\ skill_control' = [skill_control EXCEPT !.state = new_state]
            /\ detached_intents' = after
            /\ last_change' =
                  [new_state |-> new_state, from |-> state, to |-> new_state,
                   before |-> detached_intents, after |-> after,
                   did |-> Calls("disable_intent", old) \o
                           <<Did("state", new_state)>> \o
                           Calls("enable_intent", new) \o
                           StateRequests(new_state)]
    /\ UNCHANGED <<skill_vars, env_vars, shutdown_vars, life_vars, uuid_count,
                   worker_vars, call_vars>>

\* handle_disable_intent: disable_intent for a registered intent
handle_disable_intent(intent_name) ==
    /\ detached_intents' =
          IF intent_name \in RegisteredIntents
          THEN detached_intents \cup {intent_name}
          ELSE detached_intents
    /\ UNCHANGED <<skill_vars, env_vars, shutdown_vars, skill_control,
                   last_change, life_vars, uuid_count, worker_vars, call_vars>>

\* handle_enable_intent: enable_intent for a registered intent
handle_enable_intent(intent_name) ==
    /\ detached_intents' =
          IF intent_name \in RegisteredIntents
          THEN detached_intents \ {intent_name}
          ELSE detached_intents
    /\ UNCHANGED <<skill_vars, env_vars, shutdown_vars, skill_control,
                   last_change, life_vars, uuid_count, worker_vars, call_vars>>

NextState ==
    \/ \E new_state \in RequestedStates : change_state(new_state)
    \/ \E intent_name \in IntentNames : handle_disable_intent(intent_name)
    \/ \E intent_name \in IntentNames : handle_enable_intent(intent_name)

SpecState == InitState /\ [][NextState]_vars

(***************************************************************************)
(* The session builders as functions of their arguments: a skill that may  *)
(* hold the session id of a request builds one envelope with a message     *)
(* attached.                                                               *)
(***************************************************************************)
\* keyword arguments with a message attached
MessageInputs ==
    {in \in BuildInputs :
        /\ in.message \in AttachedMessages
        /\ in.dialog = NoItems /\ in.gui = NoItems
        /\ in.audio_alert = None /\ in.music_uri = None
        /\ in.gui_clear = "auto"}

Builders == {"emit_start_session", "continue_session", "end_session"}

InitEnvelope ==
    /\ call \in MessageInputs
    /\ _mycroft_session_id \in {None, "s1"}
    /\ dialog_renderer = "loaded"
    /\ data_loaded = TRUE
    /\ root_dir = [dialogs |-> TRUE, ui |-> PageNames]
    /\ sounds_acknowledge = None
    /\ uuid_count = 0
    /\ _init_settings({DefaultSettings})
    /\ InitControl({NoStates}, {"undefined"})
    /\ InitWorkers
    /\ ret = NotCalled

\* the skill calls a session builder with the arguments `call` and the
\* given mycroft_session_id
CallBuilder(builder, mycroft_session_id) ==
    /\ ~ret.done
    /\ LET built ==
              IF builder = "emit_start_session"
              THEN emit_start_session(call, mycroft_session_id, Absent)
              ELSE IF builder = "continue_session"
              THEN continue_session(call, mycroft_session_id, None)
              ELSE end_session(call, mycroft_session_id) IN
       ret' = [done |-> TRUE, raised |-> built.raised,
               actions |-> built.message.actions, message |-> built.message,
               builder |-> builder, given |-> mycroft_session_id]
    /\ uuid_count' =
          IF builder = "emit_start_session" /\ mycroft_session_id = None
          THEN uuid_count + 1 ELSE uuid_count
    /\ UNCHANGED <<skill_vars, env_vars, shutdown_vars, control_vars,
                   life_vars, worker_vars, call>>

NextEnvelope ==
    \E builder \in Builders : \E mycroft_session_id \in ExplicitIds :
        CallBuilder(builder, mycroft_session_id)

SpecEnvelope == InitEnvelope /\ [][NextEnvelope]_vars

(***************************************************************************)
(* Properties of the action compiler (checked under SpecCompile).          *)
(***************************************************************************)
HasType(actions, type) == \E i \in 1..Len(actions) : actions[i].type = type
CountType(actions, type) ==
    Cardinality({i \in 1..Len(actions) : actions[i].type = type})
Min(S) == CHOOSE x \in S : \A y \in S : x <= y
Last(seq) == seq[Len(seq)]

\* the call returned a list
Compiled == ret.done /\ ~ret.raised

\* the slot of the fixed order an action can stand in: 1 message (at_start),
\* 2 clear (at_start), 3 audio alert, 4 the ShowPage/Speak block, 5 literal
\* speak, 6 message (at_end), 7 music, 8 get_response, 9 trailing clear/idle
SlotsOf(a, in) ==
    CASE a.type = "message" -> IF a.delay = Absent THEN {1} ELSE {6}
      [] a.type = "clear_display" -> IF in.gui_clear = "at_start" THEN {2} ELSE {9}
      [] a.type = "audio_alert" -> {3}
      [] a.type = "show_page" -> {4}
      [] a.type = "speak" -> IF a.dialog = Absent THEN {5} ELSE {4}
      [] a.type = "stream_music" -> {7}
      [] a.type = "get_response" -> {8}
      [] a.type = "wait_for_idle" -> {9}
      [] OTHER -> {}

\* from position i on every action stands in a slot after the last one used
\* (slot 4 may repeat)
RECURSIVE InFixedOrder(_, _, _, _)
InFixedOrder(actions, in, i, last) ==
    IF i > Len(actions) THEN TRUE
    ELSE LET ok == {s \in SlotsOf(actions[i], in) : s > last \/ (s = 4 /\ last = 4)}
         IN  ok # {} /\ InFixedOrder(actions, in, i + 1, Min(ok))

\* an action is in the list only if its input was given
OnlyGivenInputs(actions, in) ==
    \A i \in 1..Len(actions) :
        LET a == actions[i] IN
        CASE a.type = "message" ->
                /\ in.message # NoMessage
                /\ in.message_send = (IF a.delay = Absent THEN "at_start" ELSE "at_end")
          [] a.type = "clear_display" -> in.gui_clear \in {"at_start", "at_end", "auto"}
          [] a.type = "audio_alert" -> in.audio_alert \notin {None, ""}
          [] a.type = "show_page" -> as_list(in.gui) # <<>>
          [] a.type = "speak" ->
                IF a.dialog = Absent THEN in.speak # None ELSE as_list(in.dialog) # <<>>
          [] a.type = "stream_music" -> in.music_uri \notin {None, ""}
          [] a.type = "get_response" -> in.expect_response
          [] a.type = "wait_for_idle" -> in.gui_clear \in {"on_idle", "auto"}
          [] OTHER -> FALSE

\* C1: whatever the inputs, the compiled actions stand in the fixed order
\* Message (at_start), ClearDisplay (at_start), AudioAlert, the ShowPage/Speak
\* block, the literal Speak, Message (at_end), StreamMusic, GetResponse,
\* trailing ClearDisplay / WaitForIdle, each only if its input was given.
C1_FixedOrder ==
    Compiled => /\ InFixedOrder(ret.actions, call, 1, 0)
                /\ OnlyGivenInputs(ret.actions, call)

\* a compiled list that fills the slots before, inside and after the block
C1_Witness ==
    /\ Compiled
    /\ \A t \in {"message", "audio_alert", "show_page", "speak", "stream_music",
                  "get_response", "clear_display"} : HasType(ret.actions, t)
    /\ call.message_send = "at_end"
    /\ call.speak # None
    /\ Len(as_list(call.dialog)) = MaxLen

\* C6: the compiled list holds at most one ClearDisplay and never both a
\* ClearDisplay and a WaitForIdle.
C6_OneClear ==
    Compiled => /\ CountType(ret.actions, "clear_display") <= 1
                /\ ~(HasType(ret.actions, "clear_display")
                     /\ HasType(ret.actions, "wait_for_idle"))

\* policy at_start with pages and speech: one clear, at the start
C6_Witness ==
    /\ Compiled
    /\ call.gui_clear = "at_start"
    /\ as_list(call.gui) # <<>>
    /\ as_list(call.dialog) # <<>>
    /\ CountType(ret.actions, "clear_display") = 1

\* C7 as stated: with expect_response the list holds GetResponse and no
\* WaitForIdle, whatever the clear-display policy.
C7_Original ==
    (Compiled /\ call.expect_response)
        => /\ HasType(ret.actions, "get_response")
           /\ ~HasType(ret.actions, "wait_for_idle")

\* C7 amended: with expect_response the list holds GetResponse, and it holds
\* a WaitForIdle exactly when the policy passed is on_idle (none for auto,
\* never, at_start and at_end).
C7_ExpectResponse ==
    (Compiled /\ call.expect_response)
        => /\ HasType(ret.actions, "get_response")
           /\ HasType(ret.actions, "wait_for_idle") <=> (call.gui_clear = "on_idle")

\* expect_response with policy auto, pages and no speech: no idle wait
C7_Witness ==
    /\ Compiled
    /\ call.expect_response
    /\ call.gui_clear = "auto"
    /\ as_list(call.gui) # <<>>
    /\ as_list(call.dialog) = <<>>
    /\ call.speak = None
    /\ HasType(ret.actions, "get_response")

\* the positions of the Message actions in a list
MessageAt(actions) == {i \in 1..Len(actions) : actions[i].type = "message"}

\* the types of the actions at the positions P of a list
TypesAt(actions, P) == {actions[i].type : i \in P}

\* the call passed a message
WithMessage == Compiled /\ call.message # NoMessage

\* C13 as stated: with send-policy at_start the Message action is the first
\* element; with at_end it is the last element before any trailing
\* ClearDisplay / WaitForIdle action.
C13_Original ==
    WithMessage =>
        LET n == Len(ret.actions) IN
        /\ call.message_send = "at_start" => ret.actions[1].type = "message"
        /\ call.message_send = "at_end" =>
              \E i \in MessageAt(ret.actions) :
                  \/ i = n
                  \/ /\ i = n - 1
                     /\ ret.actions[n].type \in {"clear_display", "wait_for_idle"}

\* C13 amended: with a message attached the list holds one Message action.
\* With at_start it is the first element.  With at_end it follows every
\* AudioAlert, ShowPage and Speak action and is followed only by StreamMusic
\* (music given), GetResponse (response expected) and the trailing
\* ClearDisplay / WaitForIdle action; it is the last element before the
\* trailing action when no music is given and no response is expected.
C13_MessagePlacement ==
    WithMessage =>
        LET n == Len(ret.actions) IN
        /\ Cardinality(MessageAt(ret.actions)) = 1
        /\ call.message_send = "at_start" => MessageAt(ret.actions) = {1}
        /\ call.message_send = "at_end" =>
              \A i \in MessageAt(ret.actions) :
                  /\ TypesAt(ret.actions, 1..(i - 1))
                        \subseteq {"clear_display", "audio_alert", "show_page", "speak"}
                  /\ TypesAt(ret.actions, (i + 1)..n)
                        \subseteq {"stream_music", "get_response",
                                   "clear_display", "wait_for_idle"}
                  /\ CountType(ret.actions, "stream_music")
                        = (IF call.music_uri \in {None, ""} THEN 0 ELSE 1)
                  /\ CountType(ret.actions, "get_response")
                        = (IF call.expect_response THEN 1 ELSE 0)
                  /\ Cardinality({j \in (i + 1)..n : ret.actions[j].type
                        \in {"clear_display", "wait_for_idle"}}) <= 1

\* a message sent at the end, followed by music, the request for a response
\* and the idle wait
C13_Witness ==
    /\ WithMessage
    /\ call.message_send = "at_end"
    /\ as_list(call.dialog) # <<>>
    /\ Len(ret.actions) >= 4
    /\ ret.actions[Len(ret.actions) - 3].type = "message"
    /\ ret.actions[Len(ret.actions) - 2].type = "stream_music"
    /\ ret.actions[Len(ret.actions) - 1].type = "get_response"
    /\ ret.actions[Len(ret.actions)].type = "wait_for_idle"

\* the call left the clear-display policy to auto and expects no response
AutoClear == Compiled /\ call.gui_clear = "auto" /\ ~call.expect_response

\* C14: with policy auto and no response expected, pages and speech (dialog
\* or literal) end the list with ClearDisplay, pages without speech end it
\* with WaitForIdle, and without pages the list holds neither; speak="Hello"
\* alone compiles to exactly one Speak action with wait=true.
C14_AutoResolution ==
    /\ AutoClear =>
          LET pages == as_list(call.gui) # <<>>
              speech == as_list(call.dialog) # <<>> \/ call.speak # None IN
          /\ (pages /\ speech) => Last(ret.actions).type = "clear_display"
          /\ (pages /\ ~speech) => Last(ret.actions).type = "wait_for_idle"
          /\ ~pages => /\ ~HasType(ret.actions, "clear_display")
                       /\ ~HasType(ret.actions, "wait_for_idle")
    /\ (Compiled /\ call = [DefaultInput EXCEPT !.speak = "Hello"])
          => ret.actions = <<[Action("speak") EXCEPT !.utterance = "Hello",
                                                      !.wait = TRUE]>>

\* pages with a literal utterance and no dialog, cleared at the end
C14_Witness ==
    /\ AutoClear
    /\ as_list(call.gui) # <<>>
    /\ as_list(call.dialog) = <<>>
    /\ call.speak = "Hello"
    /\ call.music_uri # None
    /\ Last(ret.actions).type = "clear_display"

\* the positions of the ShowPage actions and of the Speak actions of dialog
\* items in a list
PagePositions(actions) == {i \in 1..Len(actions) : actions[i].type = "show_page"}
DialogPositions(actions) ==
    {i \in 1..Len(actions) : actions[i].type = "speak" /\ actions[i].dialog # Absent}

\* the k-th smallest element of a set of positions
Kth(S, k) == CHOOSE x \in S : Cardinality({y \in S : y < x}) = k - 1

\* C15: GUI pages and dialog items are paired by position, with padding:
\* each GUI item yields one ShowPage and each dialog item one Speak, in the
\* order given, and the ShowPage of GUI item i precedes the Speak of dialog
\* item i and follows the Speak of dialog item i-1; dialog=[d1,d2], gui=[g1]
\* gives ShowPage(g1), Speak(d1), Speak(d2).
C15_PositionalPairing ==
    Compiled =>
        LET guis == as_list(call.gui)
            dialogs == as_list(call.dialog)
            P == PagePositions(ret.actions)
            D == DialogPositions(ret.actions) IN
        /\ Cardinality(P) = Len(guis)
        /\ Cardinality(D) = Len(dialogs)
        /\ \A i \in 1..Len(guis) :
              /\ ret.actions[Kth(P, i)].namespace = <<skill_id, guis[i]>>
              /\ i <= Len(dialogs) => Kth(P, i) < Kth(D, i)
              /\ (i > 1 /\ i - 1 <= Len(dialogs)) => Kth(D, i - 1) < Kth(P, i)
        /\ \A i \in 1..Len(dialogs) :
              /\ ret.actions[Kth(D, i)].dialog = dialogs[i]
              /\ i > 1 => Kth(D, i - 1) < Kth(D, i)
        /\ (dialogs = <<"d1", "d2">> /\ guis = <<"g1">>) =>
              SelectSeq(ret.actions, LAMBDA a : \/ a.type = "show_page"
                                                \/ a.dialog # Absent)
                 = <<ShowPage("g1"), SpeakDialog("d1", call.speak_wait),
                     SpeakDialog("d2", call.speak_wait)>>

\* two dialogs for one page: the second dialog has no page
C15_Witness ==
    /\ Compiled
    /\ as_list(call.dialog) = <<"d1", "d2">>
    /\ call.gui = OneItem("g1")
    /\ Cardinality(DialogPositions(ret.actions)) = 2
    /\ Cardinality(PagePositions(ret.actions)) = 1

\* C17: with a response expected and policy auto the policy degrades to
\* never: the list holds no ClearDisplay and no WaitForIdle, also with pages
\* and speech, and GetResponse is its last action.
C17_AutoDegradesToNever ==
    (Compiled /\ call.expect_response /\ call.gui_clear = "auto")
        => /\ ~HasType(ret.actions, "clear_display")
           /\ ~HasType(ret.actions, "wait_for_idle")
           /\ Last(ret.actions).type = "get_response"
           /\ CountType(ret.actions, "get_response") = 1

\* a response expected after pages, dialogs, an utterance and music
C17_Witness ==
    /\ Compiled
    /\ call.expect_response
    /\ call.gui_clear = "auto"
    /\ Len(as_list(call.gui)) = MaxLen
    /\ as_list(call.dialog) # <<>>
    /\ call.speak # None
    /\ call.music_uri # None
    /\ Last(ret.actions).type = "get_response"

(***************************************************************************)
(* Properties of the dispatch wrappers (checked under Spec, one worker,    *)
(* and under SpecConcurrent).                                              *)
(***************************************************************************)
CountMessages(msgs, types) ==
    Cardinality({i \in 1..Len(msgs) : msgs[i].type \in types})
SessionEnvelopes ==
    {"mycroft.session.start", "mycroft.session.continue", "mycroft.session.end"}

\* worker w has left _handle_intent, by its end or by an exception
IntentOver(w) == inbound[w].kind = "intent" /\ pc[w] \in {"done", "escaped"}

\* the start-session envelope that speaks the error of a handler
IsErrorSpeech(msg) ==
    /\ msg.type = "mycroft.session.start"
    /\ Len(msg.actions) = 1
    /\ msg.actions[1].type = "speak"
    /\ msg.actions[1].dialog = "skill.error"

\* C2: a dispatched intent request ends with exactly one terminal envelope
\* emitted on the bus (the handler's envelope or the end-session fallback),
\* whatever the handler does and whatever the state of the collaborators; no
\* dispatch is over without it.
C2_OneTerminalEnvelope ==
    \A w \in Workers :
        IntentOver(w) =>
            /\ pc[w] = "done"
            /\ emitted[w] # <<>>
            /\ Last(emitted[w]) = result_message[w]
            /\ CountMessages(emitted[w], {"mycroft.session.continue",
                                          "mycroft.session.end"}) = 1

Handling(w) == pc[w] \in {"acknowledge", "handler", "except", "returned"}

\* C4: a continue-session or end-session envelope built without an explicit
\* session id while request R is handled, by the handler or by the
\* fallback of the wrapper, carries the session id of R, also after earlier
\* dispatches for other sessions.
C4_RequestSession ==
    \A w \in Workers :
        LET R == inbound[w].mycroft_session_id IN
        /\ Handling(w) =>
              /\ \A in \in HandlerInputs :
                    /\ continue_session(in, None, None).message.mycroft_session_id = R
                    /\ end_session(in, None).message.mycroft_session_id = R
              /\ held[w] # NoneMessage =>
                    held[w].mycroft_session_id \in {R} \cup (ExplicitIds \ {None})
        /\ (pc[w] = "done" /\ outcome[w].how \in {"returned None", "raised"})
              => Last(emitted[w]).mycroft_session_id = R

\* the handler holds a continue-session envelope built with the default id
\* for a request of session s2, while the skill has seen other sessions
C4_Witness ==
    /\ pc["w1"] = "handler"
    /\ inbound["w1"].kind = "intent"
    /\ inbound["w1"].mycroft_session_id = "s2"
    /\ held["w1"].type = "mycroft.session.continue"
    /\ held["w1"].mycroft_session_id = "s2"
    /\ uuid_count > 0

\* C5: when dispatches for two sessions interleave on one skill, no message
\* emitted for one request (acknowledgment, envelope built with the default
\* id) carries the session id of the other.
C5_NoLeak ==
    \A w \in Workers :
        \A i \in 1..Len(emitted[w]) :
            emitted[w][i].type # "mycroft.session.start"
                => emitted[w][i].mycroft_session_id = inbound[w].mycroft_session_id

\* C8: when the intent handler returns None, the wrapper emits an
\* end-session envelope with no content: type mycroft.session.end, the
\* session id of the request, the id of this skill, no actions.
C8_ImplicitEnd ==
    \A w \in Workers :
        (inbound[w].kind = "intent" /\ pc[w] = "done"
                /\ outcome[w].how = "returned None")
            => /\ Last(emitted[w]) =
                    Envelope("mycroft.session.end",
                             inbound[w].mycroft_session_id, <<>>)
               /\ Last(emitted[w]).skill_id = skill_id
               /\ CountMessages(emitted[w], {"mycroft.session.end"}) = 1

\* a handler that returned None for a request of session s1, after an
\* earlier dispatch
C8_Witness ==
    /\ inbound["w1"].kind = "intent"
    /\ inbound["w1"].mycroft_session_id = "s1"
    /\ pc["w1"] = "done"
    /\ outcome["w1"].how = "returned None"
    /\ uuid_count > 0

\* C9: when the handler returns an envelope, also after it built several,
\* the wrapper emits that envelope and no end-session envelope besides it.
C9_FallbackOnlyForNone ==
    \A w \in Workers :
        (inbound[w].kind = "intent" /\ pc[w] = "done"
                /\ outcome[w].how = "returned envelope")
            => /\ Last(emitted[w]) = result_message[w]
               /\ result_message[w] # NoneMessage
               /\ CountMessages(emitted[w], {"mycroft.session.continue",
                                             "mycroft.session.end"}) = 1

\* the handler built several envelopes and returned an end-session one
C9_Witness ==
    /\ inbound["w1"].kind = "intent"
    /\ pc["w1"] = "done"
    /\ outcome["w1"] = [how |-> "returned envelope", calls |-> MaxBuilt,
                         builder |-> FALSE]
    /\ result_message["w1"].type = "mycroft.session.end"

\* the raw reply w handles does not carry this skill's id and the active
\* session id
Mismatch(w) ==
    /\ inbound[w].kind = "mycroft.skill-response"
    /\ \/ inbound[w].skill_id # skill_id
       \/ inbound[w].mycroft_session_id # _mycroft_session_id

\* C10: a raw reply whose skill id is not this skill's, or whose session id
\* is not the active one, is ignored: raw_utterance is not invoked, nothing
\* is emitted and the active session id stays; raw_utterance is invoked only
\* when both match.
C10_MismatchIgnored ==
    /\ [](\A w \in Workers :
            /\ Mismatch(w) => pc[w] = "done" /\ ~invoked[w] /\ emitted[w] = <<>>
            /\ (inbound[w].kind = "mycroft.skill-response" /\ invoked[w])
                  => ~Mismatch(w))
    /\ [][\A w \in Workers :
            (Free(w) /\ inbound'[w].kind = "mycroft.skill-response")
                => _mycroft_session_id' = _mycroft_session_id]_vars

\* a reply for this skill and another session than the active one
C10_Witness ==
    /\ inbound["w1"].kind = "mycroft.skill-response"
    /\ inbound["w1"].skill_id = skill_id
    /\ inbound["w1"].mycroft_session_id = "s2"
    /\ _mycroft_session_id = "s1"
    /\ pc["w1"] = "done"

\* worker w has completed __handle_skill_stop for a stop message addressed
\* to this skill
StopOver(w) ==
    /\ inbound[w].kind = "mycroft.skill.stop"
    /\ inbound[w].skill_id = skill_id
    /\ pc[w] = "done"

\* C11: for a stop message addressed to this skill, whatever the stop handler
\* does, exactly one terminal envelope is emitted; when the stop handler
\* raises or returns nothing, it is an end-session envelope for the session
\* id of the stop message that holds a ClearDisplay action.
C11_StopFallbackClosesGui ==
    \A w \in Workers :
        StopOver(w) =>
            /\ CountMessages(emitted[w], {"mycroft.session.continue",
                                          "mycroft.session.end"}) = 1
            /\ outcome[w].how \in {"raised", "returned None"} =>
                  /\ Last(emitted[w]).type = "mycroft.session.end"
                  /\ Last(emitted[w]).mycroft_session_id
                        = inbound[w].mycroft_session_id
                  /\ HasType(Last(emitted[w]).actions, "clear_display")

\* the mycroft.session.start envelopes worker w emitted, in order
StartEnvelopes(w) ==
    SelectSeq(emitted[w], LAMBDA m : m.type = "mycroft.session.start")

\* C12: emit_start_session uses the session id it is given and otherwise
\* allocates an id distinct from every id allocated or seen before; the id
\* it returns is the session id of the one mycroft.session.start envelope it
\* emits, and the envelope carries continue_session, False by default.
C12_StartSession ==
    \A w \in Workers :
        /\ Len(StartEnvelopes(w)) = Len(started[w])
        /\ \A k \in 1..Len(started[w]) :
              LET c == started[w][k]
                  e == StartEnvelopes(w)[k] IN
              /\ c.returned = e.mycroft_session_id
              /\ c.returned # None
              /\ c.given # None => c.returned = c.given
              /\ c.given = None =>
                    /\ c.returned \notin SessionIds \cup ExplicitIds
                    /\ \A j \in 1..(k - 1) : started[w][j].returned # c.returned
              /\ e.continue_session \in {"True", "False"}
              /\ IsErrorSpeech(e) => e.continue_session = "False"

\* a callback that started a session with the id it was given and another
\* with an allocated id
C12_Witness ==
    /\ Len(started["w1"]) = 2
    /\ started["w1"][1].given = "s9"
    /\ started["w1"][2].given = None
    /\ StartEnvelopes("w1")[2].actions = <<SpeakText("Hello", TRUE)>>
    /\ StartEnvelopes("w1")[2].continue_session = "False"

\* a GUI page of the input is not found by find_resource
UnresolvedPage(in) ==
    \E i \in 1..Len(as_list(in.gui)) : find_resource(as_list(in.gui)[i]) = None

\* no ShowPage action of the envelope shows a page that was not found
PagesResolved(msg) ==
    \A i \in 1..Len(msg.actions) :
        msg.actions[i].type = "show_page"
            => msg.actions[i].page # <<"file://", None>>

\* C16: when a GUI page is not found, the compile call fails as a whole: the
\* error reaches the caller, no action list is returned, and
\* emit_start_session, continue_session and end_session called with that
\* page produce no envelope; emit_start_session emits nothing.
C16_UnresolvedPageFails ==
    /\ [](/\ \A in \in HandlerInputs :
                UnresolvedPage(in) =>
                    /\ _build_actions(in) = [raised |-> TRUE, actions |-> <<>>]
                    /\ emit_start_session(in, None, Absent).raised
                    /\ continue_session(in, None, None).raised
                    /\ end_session(in, None).raised
          /\ \A w \in Workers :
                /\ PagesResolved(held[w])
                /\ PagesResolved(result_message[w])
                /\ \A i \in 1..Len(emitted[w]) : PagesResolved(emitted[w][i]))
    /\ [][\A w \in Workers :
            (pc[w] = "handler" /\ outcome'[w].builder)
                => /\ pc'[w] = "except"
                   /\ emitted'[w] = emitted[w]
                   /\ started'[w] = started[w]
                   /\ held'[w] = NoneMessage]_vars

\* the first session builder call of a stop handler failed for a page that
\* is not found, with the dialogs loaded
C16_Witness ==
    /\ root_dir = [dialogs |-> TRUE, ui |-> {"g1"}]
    /\ dialog_renderer # None
    /\ inbound["w1"].kind = "mycroft.skill.stop"
    /\ pc["w1"] = "except"
    /\ outcome["w1"] = [how |-> "raised", calls |-> 1, builder |-> TRUE]
    /\ emitted["w1"] = <<>>

\* C18: every envelope produced by emit_start_session, continue_session,
\* end_session or abort_session, in any reachable state of the skill (also
\* for a request whose message carried no session id), carries a session id
\* that is a token, not None.
C18_SessionIdAttached ==
    \A w \in Workers :
        /\ \A i \in 1..Len(emitted[w]) :
              emitted[w][i].type \in SessionEnvelopes
                  => emitted[w][i].mycroft_session_id \notin {None, Absent}
        /\ held[w] # NoneMessage
              => held[w].mycroft_session_id \notin {None, Absent}

\* C19: when an intent handler raises, the fault is contained in the
\* wrapper: a Speak action for the skill.error dialog is emitted before the
\* end-session envelope of the request, the end-session envelope is always
\* emitted after it, and no exception leaves the wrapper.
C19_ErrorThenCleanEnd ==
    \A w \in Workers :
        (inbound[w].kind = "intent" /\ outcome[w].how = "raised") =>
            /\ pc[w] # "escaped"
            /\ pc[w] = "done" =>
                  /\ Last(emitted[w]).type = "mycroft.session.end"
                  /\ Last(emitted[w]).mycroft_session_id
                        = inbound[w].mycroft_session_id
                  /\ \E i \in 1..(Len(emitted[w]) - 1) : IsErrorSpeech(emitted[w][i])

\* an envelope worker w holds, has emitted or is about to emit is an
\* end-session envelope without state, a continue-session envelope with a
\* state and no aborted flag, or is not flagged as aborted; a flagged one is
\* an end-session envelope of the request's session without actions
WellFlagged(w, msg) ==
    /\ msg.type = "mycroft.session.end" => msg.state = Absent
    /\ msg.type = "mycroft.session.continue"
          => msg.state \in {None, "st1"} /\ msg.aborted = Absent
    /\ msg.aborted # Absent
          => /\ msg.aborted = "True"
             /\ msg.type = "mycroft.session.end"
             /\ msg.actions = <<>>
             /\ msg.mycroft_session_id = inbound[w].mycroft_session_id

\* C20: abort_session produces an end-session envelope (type
\* mycroft.session.end, the active session id, no actions) with aborted set;
\* an envelope of end_session has no aborted flag and no state field, and a
\* continue-session envelope carries the state it was given.
C20_AbortedAndState ==
    /\ abort_session =
          [raised |-> FALSE,
           message |-> [Envelope("mycroft.session.end", _mycroft_session_id, <<>>)
                           EXCEPT !.aborted = "True"]]
    /\ \A in \in HandlerInputs :
          LET ended == end_session(in, None).message IN
          /\ ended.aborted = Absent
          /\ ended.state = Absent
          /\ continue_session(in, None, "st1").message.state = "st1"
    /\ \A w \in Workers :
          /\ WellFlagged(w, held[w])
          /\ WellFlagged(w, result_message[w])
          /\ \A k \in 1..Len(emitted[w]) : WellFlagged(w, emitted[w][k])

\* the wrapper emitted the aborted envelope an intent handler returned for
\* session s1, after the handler built a continue-session envelope
C20_Witness ==
    /\ inbound["w1"].kind = "intent"
    /\ inbound["w1"].mycroft_session_id = "s1"
    /\ pc["w1"] = "done"
    /\ outcome["w1"].calls = 2
    /\ Last(emitted["w1"]).aborted = "True"

\* the mycroft.audio.play-sound messages worker w emitted
PlaySounds(w) ==
    {i \in 1..Len(emitted[w]) : emitted[w][i].type = "mycroft.audio.play-sound"}

ReplyToSession(w) ==
    /\ inbound[w].kind = "mycroft.skill-response"
    /\ inbound[w].skill_id = skill_id
    /\ inbound[w].mycroft_session_id # None
    /\ inbound[w].mycroft_session_id = _mycroft_session_id

(***************************************************************************)
(* C22: once a wrapper has emitted the end-session envelope of session S,  *)
(* a later raw free-text reply with this skill's id and session id S does  *)
(* not invoke the reply handler and emits nothing.                         *)
(***************************************************************************)
C22_EndedSessionRetired ==
    \A w \in Workers :
        (ReplyToSession(w) /\ session_ended /\ pc[w] # "done") =>
            /\ ~invoked[w]
            /\ emitted[w] = <<>>

(***************************************************************************)
(* Properties of the lifecycle wrapper (checked under SpecLifecycle).      *)
(***************************************************************************)
\* the messages handler_info + ".complete" worker w emitted
Completions(w) ==
    {i \in 1..Len(emitted[w]) :
        emitted[w][i].type = "mycroft.skill.handler.complete"}

(***************************************************************************)
(* C23: on_end saves the settings exactly when they differ from the        *)
(* snapshot; after an on_end that did not fail the snapshot equals the     *)
(* settings, so an on_end that follows one with no mutation in between     *)
(* saves nothing; the completion message is emitted only when handler_info *)
(* was given.                                                              *)
(***************************************************************************)
C23_OnEndSavesWhenDirty ==
    \A w \in Workers :
        last_end[w].ran =>
            /\ (last_end[w].save # "none") <=> last_end[w].dirty
            /\ last_end[w].save # "failed" => last_end[w].synced
            /\ last_end[w].save = "saved" => last_end[w].written
            /\ last_end[w].point = "clean" => last_end[w].save = "none"
            /\ last_end[w].complete <=> Completions(w) # {}
            /\ Completions(w) # {} =>
                  /\ handler_info(inbound[w].kind) # None
                  /\ Completions(w) = {Len(emitted[w])}

C23_Witness ==
    /\ last_end["w1"].ran
    /\ last_end["w1"].point = "clean"
    /\ last_end["w1"].save = "none"
    /\ stored # DefaultSettings
    /\ stored = settings
    /\ inbound["w1"].kind = "skill.handler.event"
    /\ Completions("w1") # {}

(***************************************************************************)
(* C24: after a remote settings change for this skill has been applied and *)
(* saved, the next on_end with no mutation of the settings in between does *)
(* not save the settings again.                                            *)
(***************************************************************************)
C24_RemoteChangeIsSavePoint ==
    \A w \in Workers :
        (last_end[w].ran /\ last_end[w].point = "remote") =>
            last_end[w].save = "none"

\* worker w has handled an intent whose handler was invoked while the
\* settings had been mutated and not saved since
MutatedIntentOver(w) ==
    /\ inbound[w].kind = "intent"
    /\ invoked[w]
    /\ pc[w] = "done"
    /\ settings_point = "mutated"

(***************************************************************************)
(* C25: when an intent handler mutates the settings during a dispatch,     *)
(* on_end runs for that dispatch, and the mutated settings are saved once  *)
(* the handler has returned or raised (unless the save itself failed).     *)
(***************************************************************************)
C25_IntentRunsOnEnd ==
    \A w \in Workers :
        MutatedIntentOver(w) =>
            /\ last_end[w].ran
            /\ last_end[w].save # "failed" => stored = settings

(***************************************************************************)
(* C26: when save_settings fails inside on_end, the settings are kept and  *)
(* the snapshot is left as it was, so the settings are still dirty and the *)
(* next on_end attempts the save again; the worker is free to handle the   *)
(* next request.                                                           *)
(***************************************************************************)
C26_FailedSaveIsRetried ==
    \A w \in Workers :
        /\ (last_end[w].ran /\ last_end[w].save = "failed") =>
              /\ last_end[w].dirty
              /\ ~last_end[w].synced
              /\ Free(w)
              /\ settings_point = "failed" =>
                    /\ settings # _initial_settings
                    /\ \A m \in InboundLifecycle \cup Events :
                          ENABLED (Step(w, {m}) \/ wrapper(w, m))
        /\ (last_end[w].ran /\ last_end[w].point = "failed") =>
              last_end[w].save # "none"

C26_Witness ==
    /\ last_end["w1"].ran
    /\ last_end["w1"].point = "failed"
    /\ last_end["w1"].save = "saved"
    /\ stored = settings
    /\ settings = _initial_settings
    /\ settings # DefaultSettings

(***************************************************************************)
(* Properties of the dispatch wrappers, continued (checked under Spec).    *)
(***************************************************************************)
(***************************************************************************)
(* C27: when an acknowledgment sound is configured and its file is found,  *)
(* an intent dispatch emits exactly one mycroft.audio.play-sound message,  *)
(* before the handler is invoked and so before every envelope of the       *)
(* dispatch, and the message carries the session id of the request.        *)
(***************************************************************************)
C27_AcknowledgeFirst ==
    \A w \in Workers :
        (inbound[w].kind = "intent" /\ sounds_acknowledge = "found") =>
            /\ pc[w] = "acknowledge" => ~invoked[w] /\ emitted[w] = <<>>
            /\ pc[w] # "acknowledge" =>
                  /\ invoked[w]
                  /\ PlaySounds(w) = {1}
                  /\ emitted[w][1].mycroft_session_id =
                        inbound[w].mycroft_session_id
                  /\ emitted[w][1].uri = "file://acknowledge"

C27_Witness ==
    /\ inbound["w1"].kind = "intent"
    /\ inbound["w1"].mycroft_session_id = "s2"
    /\ sounds_acknowledge = "found"
    /\ pc["w1"] = "done"
    /\ Len(emitted["w1"]) = 3
    /\ emitted["w1"][1].type = "mycroft.audio.play-sound"
    /\ emitted["w1"][1].mycroft_session_id = "s2"
    /\ emitted["w1"][3].type = "mycroft.session.continue"

(***************************************************************************)
(* Properties of the lifecycle wrapper, continued (under SpecLifecycle).   *)
(***************************************************************************)
\* the step is on_error of worker w
OnErrorStep(w) == pc[w] = "on_error" /\ pc'[w] # "on_error"

ValidChange ==
    /\ skill_control.states.given
    /\ last_change.new_state \in StateNames(skill_control.states)
    /\ last_change.new_state # last_change.from

\* the names in a list of intents
NamesOf(intents) == {intents[i] : i \in 1..Len(intents)}

\* the entries of last_change.did with the given op
DidAt(op) == {i \in 1..Len(last_change.did) : last_change.did[i].op = op}

MessageActions ==
    {i \in 1..Len(ret.actions) : ret.actions[i].type = "message"}

(***************************************************************************)
(* C30: the session id merged into the data of a Message action equals the *)
(* session id of the envelope that carries the action, also when the id    *)
(* was freshly allocated or given explicitly, and when the data of the     *)
(* attached message has a mycroft_session_id entry of its own.             *)
(***************************************************************************)
C30_MessageSessionId ==
    (ret.done /\ ~ret.raised) =>
        \A i \in MessageActions :
            ret.actions[i].data_sid = ret.message.mycroft_session_id

(***************************************************************************)
(* Properties of the reply, stop and idle entry points (under Spec).       *)
(***************************************************************************)
\* worker w handles a raw free-text reply that matched the active context
MatchedReply(w) == inbound[w].kind = "mycroft.skill-response" /\ invoked[w]

(***************************************************************************)
(* C31: for a raw free-text reply that matches the active context exactly  *)
(* one envelope is emitted: the envelope the reply handler returned, or,    *)
(* when the handler raised or returned nothing, an end-session envelope    *)
(* with the active session id and no actions.  No start-session envelope   *)
(* speaks an error, and no exception leaves the wrapper.                   *)
(***************************************************************************)
C31_ReplyEmitsOne ==
    \A w \in Workers :
        MatchedReply(w) =>
            /\ pc[w] # "escaped"
            /\ \A i \in 1..Len(emitted[w]) : ~IsErrorSpeech(emitted[w][i])
            /\ pc[w] = "done" =>
                  /\ CountMessages(emitted[w], {"mycroft.session.continue",
                                                "mycroft.session.end"}) = 1
                  /\ Last(emitted[w]) = result_message[w]
                  /\ outcome[w].how = "returned envelope" =>
                        Last(emitted[w]).type \in
                            {"mycroft.session.continue", "mycroft.session.end"}
                  /\ outcome[w].how \in {"raised", "returned None"} =>
                        /\ Last(emitted[w]) =
                              Envelope("mycroft.session.end",
                                       _mycroft_session_id, <<>>)
                        /\ _mycroft_session_id = inbound[w].mycroft_session_id

C31_Witness ==
    /\ MatchedReply("w1")
    /\ inbound["w1"].mycroft_session_id = "s1"
    /\ pc["w1"] = "done"
    /\ outcome["w1"].how = "raised"
    /\ Last(emitted["w1"]) = Envelope("mycroft.session.end", "s1", <<>>)

\* a step on which worker w starts to handle an intent request or a stop
\* message addressed to this skill
ReceivesForSkill(w) ==
    /\ Free(w)
    /\ pc'[w] \in {"acknowledge", "handler"}
    /\ inbound'[w].kind \in {"intent", "mycroft.skill.stop"}
    /\ inbound'[w].skill_id = skill_id

\* a step of a builder, of the reply entry point or of the idle entry point
OtherSessionStep(w) ==
    \/ pc[w] \in {"handler", "except", "returned", "handle_gui_idle"}
    \/ Free(w) /\ inbound'[w].kind \in {"mycroft.skill-response",
                                         "mycroft.gui.handle-idle"}

\* C32: the active session id changes only on a step that receives an intent
\* request or a stop message addressed to this skill, and then it becomes the
\* id of that message; start-session (also the one speaking the error phrase
\* with a fresh id), continue-session, end-session, abort-session, the raw
\* reply entry point and the GUI-idle entry point leave it unchanged.
C32_SessionIdFrame ==
    [][/\ _mycroft_session_id' # _mycroft_session_id =>
             \E w \in Workers :
                 /\ ReceivesForSkill(w)
                 /\ _mycroft_session_id' = inbound'[w].mycroft_session_id
       /\ \A w \in Workers :
             (pc'[w] # pc[w] /\ OtherSessionStep(w)) =>
                 _mycroft_session_id' = _mycroft_session_id]_vars

\* the handler of a request for session s1 has started a session with a
\* fresh id, then the idle entry point ran, and the active id is still s1
C32_Witness ==
    /\ _mycroft_session_id = "s1"
    /\ uuid_count > 0
    /\ inbound["w1"].kind = "mycroft.gui.handle-idle"
    /\ inbound["w1"].skill_id = skill_id
    /\ pc["w1"] = "done"
    /\ Len(emitted["w1"]) = 1

\* worker w handles a stop message addressed to another skill
OtherStop(w) ==
    inbound[w].kind = "mycroft.skill.stop" /\ inbound[w].skill_id = other_skill_id

\* the raw replies this skill accepts: its own id and the active session id
PendingReplies ==
    {m \in Inbound : /\ m.kind = "mycroft.skill-response"
                     /\ m.skill_id = skill_id
                     /\ m.mycroft_session_id = _mycroft_session_id}

\* C33: a stop message for another skill invokes no handler, emits nothing
\* and leaves the active session id unchanged, on its receipt and until its
\* dispatch is over, and a reply for the active session that arrives next is
\* accepted.
C33_OtherStopNoEffect ==
    [][\A w \in Workers :
         /\ (inbound'[w].kind = "mycroft.skill.stop"
               /\ inbound'[w].skill_id = other_skill_id) =>
                /\ ~invoked'[w]
                /\ emitted'[w] = <<>>
                /\ pc'[w] \in {"on_end", "done"}
                /\ pc'[w] # pc[w] => _mycroft_session_id' = _mycroft_session_id
         /\ (OtherStop(w) /\ pc[w] = "done" /\ pc'[w] # pc[w]
               /\ inbound'[w] \in PendingReplies) => pc'[w] = "acknowledge"]_vars

\* the dispatch of a stop for another skill is over, session s1 is still the
\* active one and its reply can be received and is accepted
C33_Witness ==
    /\ OtherStop("w1")
    /\ pc["w1"] = "done"
    /\ emitted["w1"] = <<>>
    /\ _mycroft_session_id = "s1"
    /\ ENABLED (/\ __handle_skill_response("w1",
                      [kind |-> "mycroft.skill-response", skill_id |-> skill_id,
                       mycroft_session_id |-> "s1"])
                /\ pc'["w1"] = "acknowledge")

\* worker w handles a stop message addressed to this skill
OwnStop(w) ==
    inbound[w].kind = "mycroft.skill.stop" /\ inbound[w].skill_id = skill_id

\* C34: a stop message addressed to this skill makes its session id (None
\* when it carries none) the active one until its dispatch is over, whatever
\* session was continued before; of the raw replies for this skill that
\* arrive next, exactly those carrying the session id of the stop message
\* are accepted.
C34_StopReplacesSession ==
    [][\A w \in Workers :
         /\ (inbound'[w].kind = "mycroft.skill.stop"
               /\ inbound'[w].skill_id = skill_id) =>
                _mycroft_session_id' = inbound'[w].mycroft_session_id
         /\ (OwnStop(w) /\ pc[w] = "done" /\ pc'[w] # pc[w]
               /\ inbound'[w].kind = "mycroft.skill-response"
               /\ inbound'[w].skill_id = skill_id) =>
                /\ inbound'[w].mycroft_session_id = inbound[w].mycroft_session_id
                      => pc'[w] = "acknowledge"
                /\ inbound'[w].mycroft_session_id # inbound[w].mycroft_session_id
                      => pc'[w] = "done" /\ emitted'[w] = <<>>]_vars

\* a stop carrying session s2 was handled: the reply for session s1 is
\* ignored and the reply for session s2 is accepted
C34_Witness ==
    /\ OwnStop("w1")
    /\ inbound["w1"].mycroft_session_id = "s2"
    /\ pc["w1"] = "done"
    /\ ENABLED (/\ __handle_skill_response("w1",
                      [kind |-> "mycroft.skill-response", skill_id |-> skill_id,
                       mycroft_session_id |-> "s1"])
                /\ pc'["w1"] = "done")
    /\ ENABLED (/\ __handle_skill_response("w1",
                      [kind |-> "mycroft.skill-response", skill_id |-> skill_id,
                       mycroft_session_id |-> "s2"])
                /\ pc'["w1"] = "acknowledge")

\* the envelopes worker w has emitted, holds or is about to emit
EnvelopesOf(w) ==
    {m \in {emitted[w][i] : i \in 1..Len(emitted[w])}
              \cup {held[w], result_message[w]} : m.type \in SessionEnvelopes}

\* the dispatch of worker w ended with the end-session fallback of its wrapper
FellBack(w) ==
    /\ pc[w] \in {"on_end", "done"}
    /\ inbound[w].kind \in {"intent", "mycroft.skill.stop", "mycroft.skill-response"}
    /\ outcome[w].how \in {"raised", "returned None"}

\* C35: an end-session envelope built by end_session, abort_session, the
\* default stop handler or a wrapper fallback holds no get_response action,
\* a fallback or abort envelope holds no action at all, and an envelope that
\* holds get_response is a start-session or continue-session envelope.
C35_EndNeverExpectsResponse ==
    /\ ~HasType(stop.message.actions, "get_response")
    /\ stop.message.type = "mycroft.session.end"
    /\ abort_session.message.actions = <<>>
    /\ \A w \in Workers :
          /\ \A m \in EnvelopesOf(w) :
                /\ m.type = "mycroft.session.end" => ~HasType(m.actions, "get_response")
                /\ m.aborted = "True" =>
                      m.type = "mycroft.session.end" /\ m.actions = <<>>
                /\ HasType(m.actions, "get_response") =>
                      m.type \in {"mycroft.session.start", "mycroft.session.continue"}
          /\ FellBack(w) =>
                /\ Last(emitted[w]).type = "mycroft.session.end"
                /\ Last(emitted[w]).actions = <<>>

\* the handler returned the envelope of an end_session call that was given
\* expect_response, and the envelope emitted holds the speech only
C35_Witness ==
    /\ pc["w1"] = "done"
    /\ inbound["w1"].kind = "intent"
    /\ Len(emitted["w1"]) > 0
    /\ Last(emitted["w1"]) =
          end_session([DefaultInput EXCEPT !.speak = "Hello",
                                           !.expect_response = TRUE], None).message
    /\ Len(Last(emitted["w1"]).actions) = 1

\* worker w handles a mycroft.gui.handle-idle message
IdleDispatch(w) == inbound[w].kind = "mycroft.gui.handle-idle"

\* C36: for a GUI-idle message addressed to this skill exactly one response
\* is emitted when the dispatch is over, carrying the value handle_gui_idle
\* returned, and False when handle_gui_idle raised, and the exception does
\* not escape; for a GUI-idle message addressed to another skill the hook is
\* not called and nothing is emitted.
C36_IdleResponse ==
    \A w \in Workers :
        IdleDispatch(w) =>
            /\ pc[w] \in {"handle_gui_idle", "done"}
            /\ inbound[w].skill_id = other_skill_id =>
                  /\ pc[w] = "done"
                  /\ ~invoked[w]
                  /\ emitted[w] = <<>>
            /\ inbound[w].skill_id = skill_id =>
                  /\ pc[w] = "handle_gui_idle" => emitted[w] = <<>>
                  /\ pc[w] = "done" =>
                        /\ invoked[w]
                        /\ outcome[w].how \in
                              {"handled True", "handled False", "idle raised"}
                        /\ emitted[w] =
                              <<IdleResponse(outcome[w].how = "handled True")>>

\* handle_gui_idle raised and the one response says handled = False
C36_Witness ==
    /\ IdleDispatch("w1")
    /\ inbound["w1"].skill_id = skill_id
    /\ pc["w1"] = "done"
    /\ outcome["w1"].how = "idle raised"
    /\ emitted["w1"] = <<IdleResponse(FALSE)>>

(***************************************************************************)
(* Properties of a skill without settings and of default_shutdown (under   *)
(* SpecShutdown).                                                          *)
(***************************************************************************)
\* C37: for a skill constructed with use_settings False the comparison of
\* the settings with the snapshot never fails and never saves: on_end
\* after a wrapped handler and default_shutdown complete without raising,
\* and the settings file is never written.
C37_DisabledSettingsQuiet ==
    ~use_settings =>
        /\ \A w \in Workers :
              last_end[w].ran =>
                  /\ last_end[w].save = "none"
                  /\ pc[w] # "escaped"
        /\ down.ran => down.how = "completed" /\ ~down.written
        /\ stored = DefaultSettings

\* C38: default_shutdown runs to its end in one order whatever shutdown()
\* and stop() do: shutdown() is called first, settings that differ from the
\* snapshot are saved, the events are cleared, one detach_skill message is
\* emitted, stop() is called last, and the envelope stop() returns is not
\* emitted.
C38_ShutdownCompletes ==
    down.ran =>
        /\ down.how = "completed"
        /\ down.log = <<"shutdown">>
                      \o (IF down.dirty THEN <<"save_settings">> ELSE <<>>)
                      \o AfterStore
        /\ down.dirty => down.written /\ stored = settings
        /\ down.cleared
        /\ down.emitted = <<DetachSkill>>
        /\ Last(down.log) = "stop"

=============================================================================
